---- MODULE Spec2Model ----
(***************************************************************************)
(* Transaction ledger of the story-writing experiment.                     *)
(*                                                                         *)
(* The model follows src/pages/2_Experiment_Page.py (the handle_* handlers *)
(* that stage a transaction in st.session_state and sync_to_database that  *)
(* reconciles the pending queue with the user_assets table) and            *)
(* src/service.py (the storage operations they call).                      *)
(*                                                                         *)
(* Money is counted in cents (Decimal('10.00') is 1000); a content_ip_rate *)
(* is counted in tenths (1.5 is 15).  The catalog prices are whole        *)
(* dollars, so the Decimal product price * (rate - 1) is a whole number of *)
(* cents and the integer division by 10 below is exact.                    *)
(*                                                                         *)
(* The storage operations are modelled as service.py writes them: a        *)
(* UserAsset takes the attributes its callers set (content_ip_rate, the    *)
(* status 'inactive'), although models.py declares neither the column nor  *)
(* the enum value.                                                         *)
(*                                                                         *)
(* One participant session is modelled.  The page calls sync_to_database   *)
(* from the Check & Save and the Confirm Submission buttons; the model     *)
(* has one action per function, so that each function's contract is       *)
(* checked for every order of calls.                                       *)
(***************************************************************************)
EXTENDS Integers, Sequences, FiniteSets, TLC

\* ------------------------------------------------------------------------
\* Bounds of the model
\* ------------------------------------------------------------------------

\* Staging operations (a purchase, a draw, a saved draft, a submission) that
\* succeed in one session.
MaxAppends == 3

\* Rows of the user_assets table.
MaxAssets == 4

\* Storage calls of one flush, counted from its first, that may raise.
MaxFailAt == 10

\* Rows of the story_ratings table.
MaxRatings == 2

\* Characters of a story text handed to validate_story.
MaxStoryLen == 4

\* Session objects handed to get_round_config
MaxSessions == 11

\* steps of the cache's clock, each half a freshness window
MaxTicks == 3

\* milliseconds of time.time() during which assets are created
MaxTimestamp == 2

\* user_assets rows of the parties of transfers
MaxTransferRows == 5

\* ------------------------------------------------------------------------
\* Program constants
\* ------------------------------------------------------------------------

\* PlayerService.create_player: total_earnings=100
InitialEarnings == 10000

\* handle_draw_random_word: draw_price = Decimal('10.00')
DrawPrice == 1000

\* handle_submit_story: content_ip_rate < 1.0 or content_ip_rate > 3.0
MinIpRate == 10

MaxIpRate == 30

\* create_rating: content_ip_rate = 1.5 when out of range
DefaultIpRate == 15

\* sync_to_database: len(sorted_drafts) > 5, sorted_drafts[5:]
DraftRetention == 5

\* round_config_cache = TTLCache(maxsize=10, ttl=300)
CacheMaxSize == 10

\* random.randint(1000, 9999)
RandomSuffixMin == 1000

RandomSuffixMax == 9999

CacheTtl == 300

\* st.session_state.player_id of the modelled session
PlayerId == "p1"

\* ------------------------------------------------------------------------
\* Round configuration (game_rounds.parameters) in the format init_db.py
\* inserts.  The words 1, 2 and 9 are va1, va2 and va9 of that catalog with
\* their prices, ca1 is its first combination with the story sa1; ca5 is cut
\* down to the single word va9 (its story sa5 keeps the rate 2.0), which
\* makes a purchase that the initial balance cannot pay twice.
\* ------------------------------------------------------------------------

RoundConfig ==
  [ vocabularies |->
      << [id |-> 1,  word |-> "quantum",              price |-> 1000],
         [id |-> 2,  word |-> "space-time",           price |-> 1000],
         [id |-> 9,  word |-> "consciousness matrix", price |-> 5000] >>,
    combinations |->
      << [id |-> "ca1", vocab_ids |-> <<1, 2>>,
          stories |-> << [id |-> "sa1", content |-> "story sa1",
                          content_ip_rate |-> 15] >>],
         [id |-> "ca5", vocab_ids |-> <<9>>,
          stories |-> << [id |-> "sa5", content |-> "story sa5",
                          content_ip_rate |-> 20] >>] >>,
    initial_balance |-> 10000 ]

RoundConfigs == {RoundConfig}

\* Round data the pricing code can be handed besides the catalog above: the
\* bundle ca1 listing its ids in the other order, the bundle ca1 naming an
\* id (7) that the catalog lacks, and the story sa1 with a rate below 1.0.
ReorderedBundleConfig ==
  [RoundConfig EXCEPT !.combinations[1].vocab_ids = <<2, 1>>]

MissingVocabConfig ==
  [RoundConfig EXCEPT !.combinations[1].vocab_ids = <<1, 7>>]

LowRateConfig ==
  [RoundConfig EXCEPT !.combinations[1].stories[1].content_ip_rate = 5]

PricingConfigs ==
  {RoundConfig, ReorderedBundleConfig, MissingVocabConfig, LowRateConfig}

\* Inputs of the handlers
ComboIds == {"ca1", "ca5", "cx"}

StoryIndexes == 0..1

IpRates == {0, 15, 35}

StoryContents == {"s1"}

Raters == {"p1", "p2"}

RatedAssetIds == {1, 2}

\* (creativity, coherence, overall) triples a rater submits: the ends of the
\* 1..7 scale, and each field once below and once above it
ScoreInputs ==
  { <<1, 1, 1>>, <<7, 7, 7>>, <<1, 7, 4>>,
    <<0, 4, 4>>, <<4, 8, 4>>, <<4, 4, 0>>, <<8, 4, 4>> }

RatingIpRates == {20, 35}

\* Characters of a story text: letters in both cases, a blank, two of the
\* sentence terminators
StoryChars == {"a", "b", "A", " ", ".", "!"}

\* Story texts handed to validate_story, as sequences of characters
StoryTexts == UNION {[1..n -> StoryChars] : n \in 0..MaxStoryLen}

\* Words and phrases of a catalog; the phrase contains both words, as
\* "consciousness matrix" contains "consciousness" and "matrix"
VocabWords == {<<"a">>, <<"b">>, <<"a", "b">>}

\* owned_vocab_words: the words of the owned ids, each once, in any order
OwnedWordLists ==
  {w \in UNION {[1..n -> VocabWords] : n \in 0..Cardinality(VocabWords)} :
     \A i, j \in 1..Len(w) : i # j => w[i] # w[j]}

\* ------------------------------------------------------------------------
\* Helpers
\* ------------------------------------------------------------------------

Min(S) == CHOOSE x \in S : \A y \in S : x <= y

Range(s) == {s[i] : i \in 1..Len(s)}

\* next((x for x in seq if Test(x)), None): index of the first match, 0 for None
FirstIndex(seq, Test(_)) ==
  LET S == {i \in 1..Len(seq) : Test(seq[i])}
  IN  IF S = {} THEN 0 ELSE Min(S)

\* tuple(sorted(ids))
RECURSIVE SortedTuple(_)
SortedTuple(ids) ==
  IF ids = <<>> THEN <<>>
  ELSE LET m == Min(Range(ids))
           i == FirstIndex(ids, LAMBDA x : x = m)
           rest == [j \in 1..(Len(ids) - 1) |-> IF j < i THEN ids[j] ELSE ids[j + 1]]
       IN  <<m>> \o SortedTuple(rest)

\* list(owned_vocabs): the owned ids as a list
RECURSIVE SetToList(_)
SetToList(S) ==
  IF S = {} THEN <<>>
  ELSE LET m == Min(S) IN <<m>> \o SetToList(S \ {m})

VocabIndex(cfg, vocab_id) ==
  FirstIndex(cfg.vocabularies, LAMBDA v : v.id = vocab_id)

ComboIndex(cfg, combo_id) ==
  FirstIndex(cfg.combinations, LAMBDA c : c.id = combo_id)

TotalVocabPriceFirstOnly(cfg, vocab_ids) ==
  IF vocab_ids = <<>> \/ VocabIndex(cfg, Head(vocab_ids)) = 0 THEN 0
  ELSE cfg.vocabularies[VocabIndex(cfg, Head(vocab_ids))].price

\* total_cost / total_vocab_price: the sum of the prices of the ids that the
\* catalog resolves (an id the catalog lacks is skipped: "if vocab:")
RECURSIVE TotalVocabPrice(_, _)
TotalVocabPrice(cfg, vocab_ids) ==
  IF vocab_ids = <<>> THEN 0
  ELSE LET i == VocabIndex(cfg, Head(vocab_ids))
       IN  (IF i = 0 THEN 0 ELSE cfg.vocabularies[i].price)
           + TotalVocabPrice(cfg, Tail(vocab_ids))

MissingVocabPriceIgnoringOwned(cfg, vocab_ids, owned) ==
  TotalVocabPrice(cfg, vocab_ids)

\* missing_vocab_price: the same sum over the ids that are not owned
RECURSIVE MissingVocabPrice(_, _, _)
MissingVocabPrice(cfg, vocab_ids, owned) ==
  IF vocab_ids = <<>> THEN 0
  ELSE LET i == VocabIndex(cfg, Head(vocab_ids))
       IN  (IF i # 0 /\ Head(vocab_ids) \notin owned
              THEN cfg.vocabularies[i].price ELSE 0)
           + MissingVocabPrice(cfg, Tail(vocab_ids), owned)

ContentPriceSignFlipped(total_vocab_price, content_ip_rate) ==
  (total_vocab_price * (10 - content_ip_rate)) \div 10

\* content_price = total_vocab_price * (Decimal(content_ip_rate) - 1)
ContentPrice(total_vocab_price, content_ip_rate) ==
  (total_vocab_price * (content_ip_rate - 10)) \div 10

ActualPriceContentOnly(content_price, missing_vocab_price) == content_price

\* actual_price = content_price if missing_vocab_price == 0 else final_price
ActualPrice(content_price, missing_vocab_price) ==
  IF missing_vocab_price = 0 THEN content_price
  ELSE content_price + missing_vocab_price

\* variant: no word of the bundle counts as owned
OwnedVocabPriceNone(cfg, vocab_ids, owned) == 0

\* UserAssetService.purchase_story_content, the price it charges:
\* owned_vocab_price is summed over the owned ids the catalog resolves,
\* missing_vocab_price = total_vocab_price - owned_vocab_price
RECURSIVE OwnedVocabPrice(_, _, _)
OwnedVocabPrice(cfg, vocab_ids, owned) ==
  IF vocab_ids = <<>> THEN 0
  ELSE LET i == VocabIndex(cfg, Head(vocab_ids))
       IN  (IF i # 0 /\ Head(vocab_ids) \in owned
              THEN cfg.vocabularies[i].price ELSE 0)
           + OwnedVocabPrice(cfg, Tail(vocab_ids), owned)

ServerActualPrice(cfg, vocab_ids, owned, content_ip_rate) ==
  LET total_vocab_price == TotalVocabPrice(cfg, vocab_ids)
      owned_vocab_price == OwnedVocabPrice(cfg, vocab_ids, owned)
      content_price == ContentPrice(total_vocab_price, content_ip_rate)
      missing_vocab_price == total_vocab_price - owned_vocab_price
  IN  IF missing_vocab_price = 0 THEN content_price
      ELSE content_price + missing_vocab_price

\* ------------------------------------------------------------------------
\* Records
\* ------------------------------------------------------------------------

\* models.UserAsset.  asset_id 0 is None: the row is not persisted (a local
\* object of st.session_state.player_assets).  price_paid and meta_ip_rate
\* are the keys 'price_paid' and 'content_ip_rate' of asset_metadata, -1 when
\* the key is absent; content_ip_rate 0 is None.  tid names the transaction
\* the asset was made for (bookkeeping of the model, 0 for none).
UserAsset(asset_id, asset_type, content, status, vocab_ids, ip_rate, price_paid, meta_ip_rate, tid) ==
  [ asset_id |-> asset_id, player_id |-> PlayerId, asset_type |-> asset_type,
    content |-> content, status |-> status, used_vocabularies |-> vocab_ids,
    content_ip_rate |-> ip_rate, price_paid |-> price_paid,
    meta_ip_rate |-> meta_ip_rate, tid |-> tid ]

\* An entry of st.session_state.transaction_history; a key a kind does not
\* carry has the default that transaction.get() would return.  meta_ip_rate
\* is the key 'content_ip_rate' of the entry's 'metadata' (-1 when absent).
\* tid numbers the entries in the order of their appends (bookkeeping of
\* the model: in the program two entries are told apart by their position).
Transaction(tid, type) ==
  [ tid |-> tid, type |-> type, combo_id |-> "", story_index |-> 0,
    story_id |-> "", vocab_id |-> 0, cost |-> 0, content_price |-> 0,
    content |-> "", vocab_ids |-> <<>>, content_ip_rate |-> 0,
    meta_ip_rate |-> -1, is_update |-> FALSE ]

\* (success, message) as the handlers return it
Result(success, message) ==
  [success |-> success, message |-> message]

\* ------------------------------------------------------------------------
\* State
\* ------------------------------------------------------------------------

VARIABLES
  round_config,         \* st.session_state.round_config
  db_assets,            \* user_assets rows of the participant, oldest first
  db_balance,           \* players.total_earnings of the participant
  current_balance,      \* st.session_state.current_balance
  owned_vocabs,         \* st.session_state.owned_vocabs
  player_assets,        \* st.session_state.player_assets
  transaction_history,  \* st.session_state.transaction_history
  result,               \* what the last handler returned
  appends,              \* number of staging operations that have succeeded
  appended_tids,        \* tids of the entries appended so far (bookkeeping)
  submit_flushes,       \* per handle_submit_story call so far: did the flush
                        \* of its Confirm Submission succeed (bookkeeping)
  story_ratings,        \* rows of the story_ratings table
  rating_call,          \* (player_id, asset_id) of the last create_rating call
  validate_story_content, \* story_content handed to validate_story
  owned_vocab_words,    \* owned_vocab_words handed to validate_story
  validation_result,    \* what validate_story returned, NotValidated before
  round_config_cache,   \* service.round_config_cache: entries, least recently
                        \* used first
  clock,                \* time.monotonic() of the cache, in seconds
  db_sessions,          \* number of Session objects get_db() has made
  store_reads,          \* the game_rounds queries made so far: round and time
  stories_for_rating,   \* st.session_state.stories_for_rating of the rating
                        \* page opened last: the rows as they were read
  generated_asset_id,   \* the asset_id the last create_asset call built from
                        \* the time and the random suffix, <<>> before
  session_story_content, \* st.session_state.story_content, the text the
                        \* text area's on_change stores, as characters
  show_ip_rate_setting, \* st.session_state.show_ip_rate_setting
  total_earnings,       \* players.total_earnings of the parties of a transfer
  story_assets,         \* user_assets rows of the parties of a transfer
  transfer_returned     \* the last transfer_story_content call and what it
                        \* returned, NoTransfer before

vars == << round_config, db_assets, db_balance, current_balance, owned_vocabs,
           player_assets, transaction_history, result, appends, appended_tids,
           submit_flushes, story_ratings, rating_call,
           validate_story_content, owned_vocab_words, validation_result,
           round_config_cache, clock, db_sessions, store_reads,
           stories_for_rating, generated_asset_id,
           session_story_content, show_ip_rate_setting,
           total_earnings, story_assets, transfer_returned >>

transfer_state == << total_earnings, story_assets, transfer_returned >>

editor_state == << session_story_content, show_ip_rate_setting >>

cache_state == << round_config_cache, clock, db_sessions, store_reads >>

service_state == << cache_state, generated_asset_id, transfer_state >>

rating_state == << story_ratings, rating_call, stories_for_rating >>

validator_state == << validate_story_content, owned_vocab_words, validation_result >>

\* The dict validate_story returns: message is the text with its
\* placeholders, sentence / words / counts are the values that fill them
\* (0 and <<>> where the text has none), matches is the "matches" dict.
ValidationResult(valid, message, sentence, words, counts, matches) ==
  [ valid |-> valid, message |-> message, sentence |-> sentence,
    words |-> words, counts |-> counts, matches |-> matches ]

NotValidated == ValidationResult(FALSE, "", 0, <<>>, <<>>, <<>>)

\* tid of the first entry the next staging operation appends (a submission
\* appends two entries)
NextTid == 2 * appends + 1

session == << current_balance, owned_vocabs, player_assets, transaction_history >>

ledger == << round_config, db_assets, db_balance, session, appends, appended_tids,
             submit_flushes >>

RefusedAfterStaging(message) ==
  /\ result' = Result(FALSE, message)
  /\ transaction_history' = Append(transaction_history, Transaction(NextTid, "draw_word"))
  /\ UNCHANGED << current_balance, owned_vocabs, player_assets, appends, appended_tids >>

\* "return False, message" before anything is staged
Refused(message) ==
  /\ result' = Result(FALSE, message)
  /\ UNCHANGED << session, appends, appended_tids >>

InsufficientBalanceNever(price, balance) == FALSE

\* "if price > st.session_state.current_balance"
InsufficientBalance(price, balance) == price > balance

\* ------------------------------------------------------------------------
\* GameRoundService.get_round_config behind @cached(round_config_cache).
\* cachetools builds the key from all the arguments of the call, the
\* Session included; a Session is equal only to itself.
\* ------------------------------------------------------------------------

RoundNumbers == {1}

\* st.secrets['round_id'] of the experiment page
RoundId == CHOOSE n \in RoundNumbers : \A m \in RoundNumbers : n <= m

CacheEntry(db, round_number, expires) ==
  [db |-> db, round_number |-> round_number, expires |-> expires]

\* TTLCache.expire: the entries whose time is over are removed
Expire(cache, now) == SelectSeq(cache, LAMBDA e : now < e.expires)

\* position of the live entry of the key (db, round_number), 0 if none
CacheIndex(cache, now, db, round_number) ==
  FirstIndex(cache, LAMBDA e : /\ e.db = db
                               /\ e.round_number = round_number
                               /\ now < e.expires)

\* TTLCache.__setitem__: expire, make room by dropping the least recently
\* used entries, then add the entry as the most recently used one
RECURSIVE MakeRoom(_)
MakeRoom(cache) ==
  IF Len(cache) + 1 > CacheMaxSize THEN MakeRoom(Tail(cache)) ELSE cache

CacheSet(cache, now, db, round_number) ==
  Append(MakeRoom(Expire(cache, now)), CacheEntry(db, round_number, now + CacheTtl))

\* TTLCache.__getitem__ of a live entry makes it the most recently used one
CacheTouch(cache, i) ==
  SubSeq(cache, 1, i - 1) \o SubSeq(cache, i + 1, Len(cache)) \o <<cache[i]>>

\* one call GameRoundService.get_round_config(db, round_number)
GetRoundConfigCall(db, round_number) ==
  LET i == CacheIndex(round_config_cache, clock, db, round_number)
  IN  /\ IF i # 0 THEN
            /\ round_config_cache' = CacheTouch(round_config_cache, i)
            /\ UNCHANGED store_reads
          ELSE
            /\ store_reads' = Append(store_reads,
                                     [round_number |-> round_number, at |-> clock])
            /\ round_config_cache' = CacheSet(round_config_cache, clock, db, round_number)
      /\ UNCHANGED << clock, ledger, result, rating_state, validator_state,
                      generated_asset_id, editor_state, transfer_state >>

\* get_round_config(round_id) of a page: db = next(get_db()) is a new Session
GetRoundConfig(round_number) ==
  /\ db_sessions < MaxSessions
  /\ db_sessions' = db_sessions + 1
  /\ GetRoundConfigCall(db_sessions + 1, round_number)

\* a service method that is handed a Session and asks for the round data
\* more than once with it (get_vocabulary, then get_combination)
GetRoundConfigSameSession(round_number) ==
  /\ UNCHANGED db_sessions
  /\ GetRoundConfigCall(db_sessions, round_number)

\* time passes
Tick ==
  /\ clock < MaxTicks * (CacheTtl \div 2)
  /\ clock' = clock + CacheTtl \div 2
  /\ UNCHANGED << round_config_cache, db_sessions, store_reads, ledger, result,
                  rating_state, validator_state, generated_asset_id, editor_state,
                  transfer_state >>

\* the cache after init_session_state asked for the round data with the
\* first Session
CacheAfterInit ==
  /\ round_config_cache = <<CacheEntry(1, RoundId, CacheTtl)>>
  /\ clock = 0
  /\ db_sessions = 1
  /\ store_reads = <<[round_number |-> RoundId, at |-> 0]>>

\* players with a row in the players table ("px" has none)
Players == {"p1", "p2"}

NoTransfer == [from_player_id |-> "", to_player_id |-> "", story_id |-> 0, value |-> FALSE]

\* no transfer_story_content call has been made: the players hold what
\* create_player gave them and no story
NoTransfers ==
  /\ total_earnings = [p \in Players |-> InitialEarnings]
  /\ story_assets = <<>>
  /\ transfer_returned = NoTransfer

\* init_session_state on first access: the player row is created, the local
\* state is read from the (empty) store
InitSession ==
  /\ CacheAfterInit
  /\ db_assets = <<>>
  /\ db_balance = InitialEarnings
  /\ current_balance = InitialEarnings
  /\ owned_vocabs = {}
  /\ player_assets = <<>>
  /\ transaction_history = <<>>
  /\ result = Result(TRUE, "")
  /\ appends = 0
  /\ appended_tids = {}
  /\ submit_flushes = <<>>
  /\ story_ratings = <<>>
  /\ rating_call = <<"", 0>>
  /\ stories_for_rating = <<>>
  /\ generated_asset_id = <<>>
  /\ session_story_content = <<>>
  /\ show_ip_rate_setting = FALSE
  /\ NoTransfers

Init ==
  /\ round_config \in RoundConfigs
  /\ InitSession
  /\ validate_story_content = <<>>
  /\ owned_vocab_words = <<>>
  /\ validation_result = NotValidated

\* ------------------------------------------------------------------------
\* handle_purchase_combination
\* ------------------------------------------------------------------------

\* variant: a partly owned bundle is charged for its missing words only
HandlePurchaseCombinationMissingOnly(combo_id) ==
  LET ci == ComboIndex(round_config, combo_id)
      combo == round_config.combinations[ci]
      total_cost == MissingVocabPrice(round_config, combo.vocab_ids, owned_vocabs)
      new_asset == UserAsset(0, "vocabulary", "", "active", combo.vocab_ids,
                             0, total_cost, -1, NextTid)
      tx == [Transaction(NextTid, "purchase_combination") EXCEPT
               !.combo_id = combo_id, !.cost = total_cost]
  IN
  /\ appends < MaxAppends
  /\ IF ci = 0 THEN
       Refused("Combination not found")
     ELSE IF \A v \in Range(combo.vocab_ids) : v \in owned_vocabs THEN
       Refused("You already own all words in this combination")
     ELSE IF InsufficientBalance(total_cost, current_balance) THEN
       Refused("Insufficient balance")
     ELSE
       /\ owned_vocabs' = owned_vocabs \cup Range(combo.vocab_ids)
       /\ current_balance' = current_balance - total_cost
       /\ player_assets' = Append(player_assets, new_asset)
       /\ transaction_history' = Append(transaction_history, tx)
       /\ appends' = appends + 1
       /\ appended_tids' = appended_tids \cup {NextTid}
       /\ result' = Result(TRUE, "Purchase successful")
  /\ UNCHANGED << round_config, db_assets, db_balance, submit_flushes, rating_state, validator_state, service_state,
                  editor_state >>

HandlePurchaseCombination(combo_id) ==
  LET ci == ComboIndex(round_config, combo_id)
      combo == round_config.combinations[ci]
      total_cost == TotalVocabPrice(round_config, combo.vocab_ids)
      new_asset == UserAsset(0, "vocabulary", "", "active", combo.vocab_ids,
                             0, total_cost, -1, NextTid)
      tx == [Transaction(NextTid, "purchase_combination") EXCEPT
               !.combo_id = combo_id, !.cost = total_cost]
  IN
  /\ appends < MaxAppends
  /\ IF ci = 0 THEN
       Refused("Combination not found")
     ELSE IF \A v \in Range(combo.vocab_ids) : v \in owned_vocabs THEN
       Refused("You already own all words in this combination")
     ELSE IF InsufficientBalance(total_cost, current_balance) THEN
       Refused("Insufficient balance")
     ELSE
       /\ owned_vocabs' = owned_vocabs \cup Range(combo.vocab_ids)
       /\ current_balance' = current_balance - total_cost
       /\ player_assets' = Append(player_assets, new_asset)
       /\ transaction_history' = Append(transaction_history, tx)
       /\ appends' = appends + 1
       /\ appended_tids' = appended_tids \cup {NextTid}
       /\ result' = Result(TRUE, "Purchase successful")
  /\ UNCHANGED << round_config, db_assets, db_balance, submit_flushes, rating_state, validator_state, service_state,
                  editor_state >>

\* ------------------------------------------------------------------------
\* handle_purchase_story_content
\* ------------------------------------------------------------------------

HandlePurchaseStoryContent(combo_id, story_index) ==
  LET ci == ComboIndex(round_config, combo_id)
      combo == round_config.combinations[ci]
      story == combo.stories[story_index + 1]
      already_owns_story ==
        \E i \in 1..Len(player_assets) :
          /\ player_assets[i].content # ""
          /\ player_assets[i].content = story.content
          /\ player_assets[i].asset_type = "story_template"
      total_vocab_price == TotalVocabPrice(round_config, combo.vocab_ids)
      missing_vocab_price == MissingVocabPrice(round_config, combo.vocab_ids, owned_vocabs)
      content_price == ContentPrice(total_vocab_price, story.content_ip_rate)
      actual_price == ActualPrice(content_price, missing_vocab_price)
      new_asset == UserAsset(0, "story_template", story.content, "active",
                             combo.vocab_ids, 0, actual_price,
                             story.content_ip_rate, NextTid)
      tx == [Transaction(NextTid, "purchase_story") EXCEPT
               !.combo_id = combo_id, !.story_index = story_index,
               !.cost = actual_price, !.content_price = content_price,
               !.story_id = story.id]
  IN
  /\ appends < MaxAppends
  /\ IF ci = 0 \/ story_index >= Len(combo.stories) THEN
       Refused("Invalid story selection")
     ELSE IF already_owns_story THEN
       Refused("You have already purchased this story")
     ELSE IF InsufficientBalance(actual_price, current_balance) THEN
       Refused("Insufficient balance")
     ELSE
       /\ owned_vocabs' = owned_vocabs \cup Range(combo.vocab_ids)
       /\ current_balance' = current_balance - actual_price
       /\ player_assets' = Append(player_assets, new_asset)
       /\ transaction_history' = Append(transaction_history, tx)
       /\ appends' = appends + 1
       /\ appended_tids' = appended_tids \cup {NextTid}
       /\ result' = Result(TRUE, "Purchase successful!")
  /\ UNCHANGED << round_config, db_assets, db_balance, submit_flushes, rating_state, validator_state, service_state,
                  editor_state >>

\* ------------------------------------------------------------------------
\* handle_draw_random_word
\* ------------------------------------------------------------------------

AvailableVocabsOwnedToo == 1..Len(round_config.vocabularies)

AvailableVocabs ==
  {i \in 1..Len(round_config.vocabularies) :
     round_config.vocabularies[i].id \notin owned_vocabs}

HandleDrawRandomWordWriteThrough ==
  /\ appends < MaxAppends
  /\ \E i \in AvailableVocabs :
       LET selected_vocab == round_config.vocabularies[i]
           new_asset == UserAsset(0, "vocabulary_draw", selected_vocab.word,
                                  "active", <<selected_vocab.id>>, 0,
                                  DrawPrice, -1, NextTid)
           tx == [Transaction(NextTid, "draw_word") EXCEPT
                    !.vocab_id = selected_vocab.id, !.cost = DrawPrice]
       IN
       /\ ~InsufficientBalance(DrawPrice, current_balance)
       /\ owned_vocabs' = owned_vocabs \cup {selected_vocab.id}
       /\ current_balance' = current_balance - DrawPrice
       /\ db_balance' = current_balance - DrawPrice
       /\ player_assets' = Append(player_assets, new_asset)
       /\ transaction_history' = Append(transaction_history, tx)
       /\ appends' = appends + 1
       /\ appended_tids' = appended_tids \cup {NextTid}
       /\ result' = Result(TRUE, selected_vocab.word)
  /\ UNCHANGED << round_config, db_assets, submit_flushes, rating_state, validator_state, service_state,
                  editor_state >>

HandleDrawRandomWord ==
  /\ appends < MaxAppends
  /\ IF AvailableVocabs = {} THEN
       Refused("No more words available to draw")
     ELSE
       \E i \in AvailableVocabs :
         LET selected_vocab == round_config.vocabularies[i]
             new_asset == UserAsset(0, "vocabulary_draw", selected_vocab.word,
                                    "active", <<selected_vocab.id>>, 0,
                                    DrawPrice, -1, NextTid)
             tx == [Transaction(NextTid, "draw_word") EXCEPT
                      !.vocab_id = selected_vocab.id, !.cost = DrawPrice]
         IN
         IF InsufficientBalance(DrawPrice, current_balance) THEN
           Refused("Insufficient balance")
         ELSE
           /\ owned_vocabs' = owned_vocabs \cup {selected_vocab.id}
           /\ current_balance' = current_balance - DrawPrice
           /\ player_assets' = Append(player_assets, new_asset)
           /\ transaction_history' = Append(transaction_history, tx)
           /\ appends' = appends + 1
           /\ appended_tids' = appended_tids \cup {NextTid}
           /\ result' = Result(TRUE, selected_vocab.word)
  /\ UNCHANGED << round_config, db_assets, db_balance, submit_flushes, rating_state, validator_state, service_state,
                  editor_state >>

\* ------------------------------------------------------------------------
\* Storage operations of service.py as sync_to_database uses them.
\*
\* A flush is a sequence of storage calls; call number fail_at raises (a
\* storage error or a timeout), fail_at = 0 means that no call raises.  The
\* record st carries the table, the number of calls made, whether a call
\* has raised, and processed_transactions.
\* ------------------------------------------------------------------------

Raises(st, fail_at) == st.calls + 1 = fail_at

CreateAssetUncommitted(st, fail_at, asset_type, content, vocab_ids, price_paid, meta_ip_rate, tid) ==
  IF st.failed THEN st
  ELSE IF Raises(st, fail_at) THEN [st EXCEPT !.failed = TRUE, !.calls = @ + 1]
  ELSE [st EXCEPT !.calls = @ + 1]

\* UserAssetService.create_asset: the row is committed by the call itself;
\* status is 'active' and content_ip_rate is the default None for every
\* caller in sync_to_database
CreateAsset(st, fail_at, asset_type, content, vocab_ids, price_paid, meta_ip_rate, tid) ==
  IF st.failed THEN st
  ELSE IF Raises(st, fail_at) THEN [st EXCEPT !.failed = TRUE, !.calls = @ + 1]
  ELSE [st EXCEPT !.calls = @ + 1,
                  !.db = Append(@, UserAsset(Len(@) + 1, asset_type, content,
                                             "active", vocab_ids, 0,
                                             price_paid, meta_ip_rate, tid))]

UpdateAssetStatusDeleting(st, fail_at, asset_id, status) ==
  IF st.failed THEN st
  ELSE IF Raises(st, fail_at) THEN [st EXCEPT !.failed = TRUE, !.calls = @ + 1]
  ELSE [st EXCEPT !.calls = @ + 1,
                  !.db = SelectSeq(@, LAMBDA a : a.asset_id # asset_id)]

\* asset_type[0].lower()
TypePrefix(asset_type) ==
  IF asset_type \in {"story_draft", "story_template"} THEN "s"
  ELSE IF asset_type \in {"vocabulary", "vocabulary_draw"} THEN "v"
  ELSE "u"

\* f"{type_prefix}{round_id}_{player_id}_{timestamp}_{random_suffix}"
GenerateAssetId(asset_type, round_id, player_id, timestamp, random_suffix) ==
  << TypePrefix(asset_type), round_id, player_id, timestamp, random_suffix >>

AssetTypes == {"story_draft", "story_template", "user_creation"}

Timestamps == 1..MaxTimestamp

RandomSuffixes == {RandomSuffixMin, RandomSuffixMax}

AssetIds(db) == {db[i].asset_id : i \in 1..Len(db)}

\* the time of the previous create_asset call, 0 before the first one
LastTimestamp == IF generated_asset_id = <<>> THEN 0 ELSE generated_asset_id[4]

\* UserAssetService.create_asset with the id it builds: timestamp is
\* int(time.time() * 1000) and random_suffix is random.randint(1000, 9999)
\* at the call.  asset_id is the primary key of user_assets, so db.commit()
\* raises when a row with the id is there already.  (CreateAsset above
\* numbers the rows instead, and has this failure among those of Raises.)
CreateAssetCall(asset_type, timestamp, random_suffix) ==
  LET asset_id == GenerateAssetId(asset_type, RoundId, PlayerId, timestamp, random_suffix)
  IN  /\ Len(db_assets) < MaxAssets
      /\ timestamp >= LastTimestamp
      /\ generated_asset_id' = asset_id
      /\ IF asset_id \in AssetIds(db_assets) THEN
            /\ result' = Result(FALSE, "IntegrityError")
            /\ UNCHANGED db_assets
          ELSE
            /\ result' = Result(TRUE, "asset")
            /\ db_assets' = Append(db_assets,
                                   UserAsset(asset_id, asset_type, "s1", "active",
                                             <<>>, 0, -1, -1, 0))
      /\ UNCHANGED << round_config, db_balance, session, appends, appended_tids,
                      submit_flushes, rating_state, validator_state, cache_state,
                      editor_state, transfer_state >>

\* UserAssetService.update_asset_status(asset_id, status)
UpdateAssetStatus(st, fail_at, asset_id, status) ==
  IF st.failed THEN st
  ELSE IF Raises(st, fail_at) THEN [st EXCEPT !.failed = TRUE, !.calls = @ + 1]
  ELSE [st EXCEPT !.calls = @ + 1,
                  !.db = [i \in 1..Len(@) |->
                            IF @[i].asset_id = asset_id /\ asset_id # 0
                              THEN [@[i] EXCEPT !.status = status]
                              ELSE @[i]]]

\* for creation in ...: update_asset_status(creation.asset_id, 'inactive')
RECURSIVE MarkInactive(_, _, _)
MarkInactive(st, fail_at, asset_ids) ==
  IF asset_ids = <<>> \/ st.failed THEN st
  ELSE MarkInactive(UpdateAssetStatus(st, fail_at, Head(asset_ids), "inactive"),
                    fail_at, Tail(asset_ids))

\* UserAssetService.get_player_assets: order_by(created_at.desc())
RECURSIVE Reverse(_)
Reverse(s) == IF s = <<>> THEN <<>> ELSE Reverse(Tail(s)) \o <<Head(s)>>

GetPlayerAssets(db) == Reverse(db)

GetPlayerVocabulariesOfPurchases(db) ==
  UNION {Range(db[i].used_vocabularies) :
           i \in {k \in 1..Len(db) : db[k].asset_type = "vocabulary"}}

\* UserAssetService.get_player_vocabularies
GetPlayerVocabularies(db) ==
  UNION {Range(db[i].used_vocabularies) : i \in 1..Len(db)}

\* ids of the rows of a list that have the given type, in list order
RECURSIVE AssetIdsOfType(_, _)
AssetIdsOfType(assets, asset_type) ==
  IF assets = <<>> THEN <<>>
  ELSE (IF Head(assets).asset_type = asset_type
          THEN <<Head(assets).asset_id>> ELSE <<>>)
       \o AssetIdsOfType(Tail(assets), asset_type)

\* ------------------------------------------------------------------------
\* sync_to_database: the dedup sets read from the snapshot
\* ------------------------------------------------------------------------

ExistingStoryContents(existing_assets) ==
  {existing_assets[i].content : i \in
     {j \in 1..Len(existing_assets) :
        /\ existing_assets[j].asset_type = "story_template"
        /\ existing_assets[j].content # ""}}

ExistingVocabCombos(existing_assets) ==
  {SortedTuple(existing_assets[i].used_vocabularies) : i \in
     {j \in 1..Len(existing_assets) :
        /\ existing_assets[j].asset_type = "vocabulary"
        /\ existing_assets[j].used_vocabularies # <<>>}}

\* ------------------------------------------------------------------------
\* sync_to_database: one pass of the loop over transaction_history
\* ------------------------------------------------------------------------

Processed(st, tx) == [st EXCEPT !.processed = Append(@, tx)]

SyncPurchaseStory(st, fail_at, cfg, tx, existing_assets) ==
  LET ci == ComboIndex(cfg, tx.combo_id)
      combo == cfg.combinations[ci]
      si == FirstIndex(combo.stories, LAMBDA s : s.id = tx.story_id)
      story == combo.stories[si]
  IN  IF ci = 0 THEN st
      ELSE IF si = 0 \/ story.content = "" THEN st
      ELSE IF story.content \in ExistingStoryContents(existing_assets) THEN st
      ELSE LET st1 == CreateAsset(st, fail_at, "story_template", story.content,
                                  combo.vocab_ids, tx.cost,
                                  story.content_ip_rate, tx.tid)
           IN  IF st1.failed THEN st1 ELSE Processed(st1, tx)

\* variant: the bundle row is stored without the price that was charged
SyncPurchaseCombinationPriceDropped(st, fail_at, cfg, tx, existing_assets) ==
  LET ci == ComboIndex(cfg, tx.combo_id)
      combo == cfg.combinations[ci]
  IN  IF ci = 0 THEN st
      ELSE IF SortedTuple(combo.vocab_ids) \in ExistingVocabCombos(existing_assets) THEN st
      ELSE LET st1 == CreateAsset(st, fail_at, "vocabulary", "",
                                  combo.vocab_ids, 0, -1, tx.tid)
           IN  IF st1.failed THEN st1 ELSE Processed(st1, tx)

SyncPurchaseCombination(st, fail_at, cfg, tx, existing_assets) ==
  LET ci == ComboIndex(cfg, tx.combo_id)
      combo == cfg.combinations[ci]
  IN  IF ci = 0 THEN st
      ELSE IF SortedTuple(combo.vocab_ids) \in ExistingVocabCombos(existing_assets) THEN st
      ELSE LET st1 == CreateAsset(st, fail_at, "vocabulary", "",
                                  combo.vocab_ids, tx.cost, -1, tx.tid)
           IN  IF st1.failed THEN st1 ELSE Processed(st1, tx)

SyncDrawWord(st, fail_at, cfg, tx, existing_vocab_ids) ==
  LET vi == VocabIndex(cfg, tx.vocab_id)
  IN  IF tx.vocab_id = 0 \/ tx.vocab_id \in existing_vocab_ids THEN st
      ELSE IF vi = 0 THEN st
      ELSE LET st1 == CreateAsset(st, fail_at, "vocabulary_draw",
                                  cfg.vocabularies[vi].word, <<tx.vocab_id>>,
                                  tx.cost, -1, tx.tid)
           IN  IF st1.failed THEN st1 ELSE Processed(st1, tx)

SyncSaveDraft(st, fail_at, tx) ==
  IF Len(tx.content) = 0 THEN st
  ELSE LET st1 == CreateAsset(st, fail_at, "story_draft", tx.content,
                              tx.vocab_ids, -1, tx.meta_ip_rate, tx.tid)
       IN  IF st1.failed THEN st1 ELSE Processed(st1, tx)

SyncSubmitStoryKeepingOld(st, fail_at, tx, existing_assets) ==
  IF Len(tx.content) = 0 THEN st
  ELSE LET st2 == CreateAsset(st, fail_at, "user_creation", tx.content,
                              tx.vocab_ids, -1, -1, tx.tid)
       IN  IF st2.failed THEN st2 ELSE Processed(st2, tx)

SyncSubmitStory(st, fail_at, tx, existing_assets) ==
  IF Len(tx.content) = 0 THEN st
  ELSE LET st1 == IF tx.is_update
                    THEN MarkInactive(st, fail_at,
                                      AssetIdsOfType(existing_assets, "user_creation"))
                    ELSE st
           st2 == CreateAsset(st1, fail_at, "user_creation", tx.content,
                              tx.vocab_ids, -1, -1, tx.tid)
       IN  IF st2.failed THEN st2 ELSE Processed(st2, tx)

SyncTransaction(st, fail_at, cfg, tx, existing_assets, existing_vocab_ids) ==
  IF tx.type = "purchase_story" THEN
    SyncPurchaseStory(st, fail_at, cfg, tx, existing_assets)
  ELSE IF tx.type = "purchase_combination" THEN
    SyncPurchaseCombination(st, fail_at, cfg, tx, existing_assets)
  ELSE IF tx.type = "draw_word" THEN
    SyncDrawWord(st, fail_at, cfg, tx, existing_vocab_ids)
  ELSE IF tx.type = "save_draft" THEN
    SyncSaveDraft(st, fail_at, tx)
  ELSE IF tx.type = "submit_story" THEN
    SyncSubmitStory(st, fail_at, tx, existing_assets)
  ELSE st

\* for transaction in st.session_state.transaction_history: ...
RECURSIVE SyncLoop(_, _, _, _, _, _)
SyncLoop(st, fail_at, cfg, txs, existing_assets, existing_vocab_ids) ==
  IF txs = <<>> \/ st.failed THEN st
  ELSE SyncLoop(SyncTransaction(st, fail_at, cfg, Head(txs),
                                existing_assets, existing_vocab_ids),
                fail_at, cfg, Tail(txs), existing_assets, existing_vocab_ids)

\* for transaction in processed_transactions:
\*     if transaction in transaction_history: transaction_history.remove(transaction)
RemoveFirst(seq, x) ==
  LET i == FirstIndex(seq, LAMBDA y : y = x)
  IN  IF i = 0 THEN seq
      ELSE [j \in 1..(Len(seq) - 1) |-> IF j < i THEN seq[j] ELSE seq[j + 1]]

RECURSIVE RemoveProcessed(_, _)
RemoveProcessed(history, processed) ==
  IF processed = <<>> THEN history
  ELSE RemoveProcessed(RemoveFirst(history, Head(processed)), Tail(processed))

\* sorted(all_drafts, key=created_at, reverse=True)[5:], as asset ids.
\* A draft staged locally has created_at None, and sorted() raises TypeError
\* when it compares None: the inner except swallows it and nothing is marked.
RECURSIVE DescendingList(_)
DescendingList(S) ==
  IF S = {} THEN <<>>
  ELSE LET m == CHOOSE x \in S : \A y \in S : y <= x
       IN  <<m>> \o DescendingList(S \ {m})

OldDraftIds(assets) ==
  LET drafts == AssetIdsOfType(assets, "story_draft")
      sorted_drafts == DescendingList(Range(drafts))
  IN  IF Len(drafts) >= 2 /\ 0 \in Range(drafts) THEN <<>>
      ELSE IF Len(drafts) > DraftRetention
        THEN SubSeq(sorted_drafts, DraftRetention + 1, Len(sorted_drafts))
        ELSE <<>>

\* the try/except around the marking of old drafts: an error ends the
\* marking and is printed, the flush goes on
MarkOldDrafts(st, fail_at, assets) ==
  [MarkInactive(st, fail_at, OldDraftIds(assets)) EXCEPT !.failed = FALSE]

\* ------------------------------------------------------------------------
\* sync_to_database as a function of the state it reads.  The outcome names
\* the new table and the new session state; on an exception the function
\* returns False and whatever the calls before it committed stays committed.
\* Calls 1 and 2 are the two reads of the snapshot.
\* ------------------------------------------------------------------------

SyncOutcomeBalanceNotWritten(success, db, balance, history, assets, owned, calls) ==
  [ success |-> success, db |-> db, db_balance |-> db_balance,
    transaction_history |-> history, player_assets |-> assets,
    owned_vocabs |-> owned, calls |-> calls ]

SyncOutcome(success, db, balance, history, assets, owned, calls) ==
  [ success |-> success, db |-> db, db_balance |-> balance,
    transaction_history |-> history, player_assets |-> assets,
    owned_vocabs |-> owned, calls |-> calls ]

SyncToDatabaseOn(cfg, db, stored_balance, balance, owned, assets, history, fail_at) ==
  IF fail_at \in {1, 2} THEN
    SyncOutcome(FALSE, db, stored_balance, history, assets, owned, fail_at)
  ELSE
    LET existing_assets == GetPlayerAssets(db)
        existing_vocab_ids == GetPlayerVocabularies(db)
        st0 == [db |-> db, calls |-> 2, failed |-> FALSE, processed |-> <<>>]
        st1 == SyncLoop(st0, fail_at, cfg, history, existing_assets, existing_vocab_ids)
        \* PlayerService.update_player_balance
        st2 == [st1 EXCEPT !.calls = @ + 1]
        history2 == RemoveProcessed(history, st1.processed)
        st3 == MarkOldDrafts(st2, fail_at, assets)
    IN  IF st1.failed \/ Raises(st1, fail_at) THEN
          SyncOutcome(FALSE, st1.db, stored_balance, history, assets, owned, fail_at)
        ELSE IF Raises(st3, fail_at) THEN
          \* get_player_assets of the refresh raises
          SyncOutcome(FALSE, st3.db, balance, history2, assets, owned, fail_at)
        ELSE IF st3.calls + 2 = fail_at THEN
          \* get_player_vocabularies of the refresh raises
          SyncOutcome(FALSE, st3.db, balance, history2, GetPlayerAssets(st3.db),
                      owned, fail_at)
        ELSE
          SyncOutcome(TRUE, st3.db, balance, history2, GetPlayerAssets(st3.db),
                      GetPlayerVocabularies(st3.db), st3.calls + 2)

SyncMessage(out) ==
  IF out.success THEN "Successfully synced to database!"
  ELSE "Sync to database failed"

\* The storage call that raises in a flush: 0 for none, else one of the
\* calls the flush makes, up to call number MaxFailAt.
FailAts(assets, history) ==
  LET calls == SyncToDatabaseOn(round_config, db_assets, db_balance, current_balance,
                                owned_vocabs, assets, history, 0).calls
  IN  0..(IF calls < MaxFailAt THEN calls ELSE MaxFailAt)

\* the rows persisted since the session started (the rows a resumed session
\* found in the table carry tid 0)
StoredThisSession(db) == SelectSeq(db, LAMBDA a : a.tid # 0)

\* the flush applied to a staged session state
ApplySync(assets, history) ==
  \E fail_at \in FailAts(assets, history) :
    LET out == SyncToDatabaseOn(round_config, db_assets, db_balance, current_balance,
                                owned_vocabs, assets, history, fail_at)
    IN  /\ Len(StoredThisSession(db_assets)) + Len(history) <= MaxAssets
        /\ db_assets' = out.db
        /\ db_balance' = out.db_balance
        /\ transaction_history' = out.transaction_history
        /\ player_assets' = out.player_assets
        /\ owned_vocabs' = out.owned_vocabs
        /\ result' = Result(out.success, SyncMessage(out))
        /\ UNCHANGED << round_config, current_balance, rating_state, validator_state,
                        service_state >>

\* sync_to_database called on the session state as it is
SyncToDatabase ==
  /\ ApplySync(player_assets, transaction_history)
  /\ UNCHANGED << appends, appended_tids, submit_flushes, editor_state >>

\* ------------------------------------------------------------------------
\* render_left_sidebar, the Check & Save button: stage a draft, then flush.
\* story_content is st.session_state.story_content, the text the participant
\* has typed when the button is pressed.
\* ------------------------------------------------------------------------

CheckAndSave(story_content) ==
  LET draft_asset == UserAsset(0, "story_draft", story_content, "active",
                               SetToList(owned_vocabs), 0, -1, -1, NextTid)
      tx == [Transaction(NextTid, "save_draft") EXCEPT
               !.content = story_content, !.vocab_ids = SetToList(owned_vocabs)]
  IN
  /\ appends < MaxAppends
  /\ IF story_content = "" THEN
       /\ result' = Result(FALSE, "No content to save!")
       /\ UNCHANGED << ledger, rating_state, validator_state, service_state >>
     ELSE
       /\ ApplySync(Append(player_assets, draft_asset),
                    Append(transaction_history, tx))
       /\ appends' = appends + 1
       /\ appended_tids' = appended_tids \cup {NextTid}
       /\ UNCHANGED submit_flushes
  /\ UNCHANGED editor_state

\* ------------------------------------------------------------------------
\* handle_submit_story, and the Confirm Submission button of
\* render_center_content that calls it and then flushes
\* ------------------------------------------------------------------------

ExistingCreations(assets) ==
  {i \in 1..Len(assets) : assets[i].asset_type = "user_creation"}

\* for i, asset in enumerate(player_assets): if user_creation: pop(i); break
PopFirstCreation(assets) ==
  LET S == ExistingCreations(assets)
  IN  IF S = {} THEN assets
      ELSE [j \in 1..(Len(assets) - 1) |->
              IF j < Min(S) THEN assets[j] ELSE assets[j + 1]]

SubmitStoryError(story_content, content_ip_rate) ==
  IF Len(story_content) = 0 THEN "Please write your story content before submitting"
  ELSE IF content_ip_rate = 0 \/ content_ip_rate < MinIpRate \/ content_ip_rate > MaxIpRate
    THEN "Please set a valid IP rate (between 1.0-3.0)"
  ELSE ""

\* player_assets after handle_submit_story
SubmitStoryAssets(story_content, content_ip_rate) ==
  LET draft_asset == UserAsset(0, "story_draft", story_content, "active",
                               SetToList(owned_vocabs), content_ip_rate, -1,
                               content_ip_rate, NextTid)
      new_asset == UserAsset(0, "user_creation", story_content, "submitted",
                             SetToList(owned_vocabs), content_ip_rate, -1,
                             content_ip_rate, NextTid + 1)
  IN  Append(PopFirstCreation(Append(player_assets, draft_asset)), new_asset)

\* transaction_history after handle_submit_story
SubmitStoryHistory(story_content, content_ip_rate) ==
  LET draft_tx == [Transaction(NextTid, "save_draft") EXCEPT
                     !.content = story_content,
                     !.vocab_ids = SetToList(owned_vocabs),
                     !.content_ip_rate = content_ip_rate,
                     !.meta_ip_rate = content_ip_rate]
      submit_tx == [Transaction(NextTid + 1, "submit_story") EXCEPT
                      !.content = story_content,
                      !.vocab_ids = SetToList(owned_vocabs),
                      !.content_ip_rate = content_ip_rate,
                      !.is_update = (ExistingCreations(player_assets) # {})]
  IN  transaction_history \o <<draft_tx, submit_tx>>

\* handle_submit_story(content_ip_rate) and, when it returns success,
\* sync_to_database()
HandleSubmitStory(story_content, content_ip_rate) ==
  /\ appends < MaxAppends
  /\ IF SubmitStoryError(story_content, content_ip_rate) # "" THEN
       /\ result' = Result(FALSE, SubmitStoryError(story_content, content_ip_rate))
       /\ UNCHANGED << ledger, rating_state, validator_state, service_state >>
     ELSE
       /\ ApplySync(SubmitStoryAssets(story_content, content_ip_rate),
                    SubmitStoryHistory(story_content, content_ip_rate))
       /\ appends' = appends + 1
       /\ appended_tids' = appended_tids \cup {NextTid, NextTid + 1}
       /\ submit_flushes' = Append(submit_flushes, result'.success)

\* the Confirm Submission button, for any story text and any rate
ConfirmSubmission(story_content, content_ip_rate) ==
  /\ HandleSubmitStory(story_content, content_ip_rate)
  /\ UNCHANGED editor_state

\* ------------------------------------------------------------------------
\* StoryRatingService.create_rating
\* ------------------------------------------------------------------------

StoryRating(player_id, asset_id, creativity_score, coherence_score, overall_score, content_ip_rate) ==
  [ player_id |-> player_id, asset_id |-> asset_id,
    creativity_score |-> creativity_score, coherence_score |-> coherence_score,
    overall_score |-> overall_score, content_ip_rate |-> content_ip_rate ]

ScoresInRangeUpperOnly(creativity_score, coherence_score, overall_score) ==
  /\ creativity_score <= 7
  /\ coherence_score <= 7
  /\ overall_score <= 7

\* 1 <= creativity_score <= 7 and 1 <= coherence_score <= 7 and 1 <= overall_score <= 7
ScoresInRange(creativity_score, coherence_score, overall_score) ==
  /\ 1 <= creativity_score /\ creativity_score <= 7
  /\ 1 <= coherence_score /\ coherence_score <= 7
  /\ 1 <= overall_score /\ overall_score <= 7

\* db.query(StoryRating).filter(player_id == ..., asset_id == ...).first()
ExistingRatingNever(ratings, player_id, asset_id) == {}

ExistingRating(ratings, player_id, asset_id) ==
  {i \in 1..Len(ratings) :
     ratings[i].player_id = player_id /\ ratings[i].asset_id = asset_id}

CreateRating(player_id, asset_id, creativity_score, coherence_score, overall_score, content_ip_rate) ==
  LET rate == IF MinIpRate <= content_ip_rate /\ content_ip_rate <= MaxIpRate
                THEN content_ip_rate ELSE DefaultIpRate
      rating == StoryRating(player_id, asset_id, creativity_score,
                            coherence_score, overall_score, rate)
  IN
  /\ IF ~ScoresInRange(creativity_score, coherence_score, overall_score) THEN
       /\ result' = Result(FALSE, "None")
       /\ UNCHANGED story_ratings
     ELSE IF ExistingRating(story_ratings, player_id, asset_id) # {} THEN
       /\ result' = Result(FALSE, "None")
       /\ UNCHANGED story_ratings
     ELSE
       /\ Len(story_ratings) < MaxRatings
       /\ story_ratings' = Append(story_ratings, rating)
       /\ result' = Result(TRUE, "rating")
  /\ rating_call' = <<player_id, asset_id>>
  /\ UNCHANGED << ledger, validator_state, service_state, stories_for_rating,
                  editor_state >>

\* StoryRatingService.get_player_ratings: the asset ids a rater has rated
RatedStoryIds(ratings, player_id) ==
  {ratings[i].asset_id : i \in {k \in 1..Len(ratings) : ratings[k].player_id = player_id}}

\* init_session_state of the rating page: every user_creation row of the
\* round, newest first, that the rater has not rated yet
StoriesForRating(db, ratings, player_id) ==
  SelectSeq(Reverse(db),
            LAMBDA story : /\ story.asset_type = "user_creation"
                           /\ story.asset_id \notin RatedStoryIds(ratings, player_id))

\* a rater opens the rating page in a new session
OpenRatingPage(player_id) ==
  /\ stories_for_rating' = StoriesForRating(db_assets, story_ratings, player_id)
  /\ result' = Result(TRUE, "")
  /\ UNCHANGED << ledger, story_ratings, rating_call, validator_state, service_state,
                  editor_state >>

\* ------------------------------------------------------------------------
\* StoryValidationService.validate_story
\* ------------------------------------------------------------------------

\* str.lower()
Lower(c) == IF c = "A" THEN "a" ELSE IF c = "B" THEN "b" ELSE c

LowerStr(str) == [i \in 1..Len(str) |-> Lower(str[i])]

\* the character class [.!?]
IsTerminator(c) == c \in {".", "!", "?"}

\* str.strip()
RECURSIVE Strip(_)
Strip(str) ==
  IF str = <<>> THEN <<>>
  ELSE IF Head(str) = " " THEN Strip(Tail(str))
  ELSE IF str[Len(str)] = " " THEN Strip(SubSeq(str, 1, Len(str) - 1))
  ELSE str

\* the rest of the text after the run of terminators it starts with
RECURSIVE DropTerminators(_)
DropTerminators(str) ==
  IF str # <<>> /\ IsTerminator(Head(str)) THEN DropTerminators(Tail(str))
  ELSE str

\* re.split(r'[.!?]+', story_content): the pieces between runs of
\* terminators, empty pieces at the ends included
RECURSIVE ReSplit(_)
ReSplit(str) ==
  IF str = <<>> THEN << <<>> >>
  ELSE IF IsTerminator(Head(str))
    THEN << <<>> >> \o ReSplit(DropTerminators(Tail(str)))
  ELSE LET rest == ReSplit(Tail(str))
       IN  << <<Head(str)>> \o Head(rest) >> \o Tail(rest)

\* [s.strip() for s in re.split(...) if s.strip()]
RECURSIVE StrippedNonEmpty(_)
StrippedNonEmpty(pieces) ==
  IF pieces = <<>> THEN <<>>
  ELSE (IF Strip(Head(pieces)) # <<>> THEN <<Strip(Head(pieces))>> ELSE <<>>)
       \o StrippedNonEmpty(Tail(pieces))

SentencesUnfiltered(story_content) ==
  LET pieces == ReSplit(story_content)
  IN  [i \in 1..Len(pieces) |-> Strip(pieces[i])]

Sentences(story_content) == StrippedNonEmpty(ReSplit(story_content))

WordInSentenceCaseSensitive(word, sentence) ==
  \E k \in 0..(Len(sentence) - Len(word)) :
    SubSeq(sentence, k + 1, k + Len(word)) = word

\* word.lower() in sentence.lower()
WordInSentence(word, sentence) ==
  \E k \in 0..(Len(sentence) - Len(word)) :
    SubSeq(LowerStr(sentence), k + 1, k + Len(word)) = LowerStr(word)

\* variant: the search stops at the first owned word found in the sentence
RECURSIVE SentenceMatchesFirstOnly(_, _)
SentenceMatchesFirstOnly(sentence, words) ==
  IF words = <<>> THEN <<>>
  ELSE IF WordInSentence(Head(words), sentence) THEN <<Head(words)>>
  ELSE SentenceMatchesFirstOnly(sentence, Tail(words))

\* sentence_matches: the owned words found in the sentence, in list order
RECURSIVE SentenceMatches(_, _)
SentenceMatches(sentence, words) ==
  IF words = <<>> THEN <<>>
  ELSE (IF WordInSentence(Head(words), sentence) THEN <<Head(words)>> ELSE <<>>)
       \o SentenceMatches(sentence, Tail(words))

MsgNoMatch == "Sentence {i+1} does not contain any purchased words or phrases."

MsgMultiple == "Sentence {i+1} contains multiple words or phrases: {', '.join(sentence_matches)}. Each sentence should contain only one word or phrase."

MsgReused == "Word or phrase '{word}' is used in multiple sentences. Each word or phrase should be used in only one sentence."

MsgTooFew == "You own {len(owned_vocab_words)} words or phrases, but there are only {len(sentences)} sentences. Each word or phrase must be used in a sentence."

MsgTooMany == "You own {len(owned_vocab_words)} words or phrases, but there are {len(sentences)} sentences. Each sentence must use exactly one word or phrase."

MsgUnused == "The following words or phrases are not used: {', '.join(unused_words)}. All words or phrases must be used."

MsgPassed == "Story check passed! Each sentence uses one word or phrase, and all words or phrases are used."

\* the words of a set in the order the join iterates over it
SetToWordList(S) == CHOOSE q \in [1..Cardinality(S) -> S] : Range(q) = S

\* steps 3 and 4 and the return of validate_story, after the loop
ValidateCounts(sentences, words, used_words, sentence_word_matches) ==
  LET unused_words == Range(words) \ used_words
  IN  IF Len(sentences) # Len(words) THEN
        ValidationResult(FALSE,
                         IF Len(sentences) < Len(words) THEN MsgTooFew ELSE MsgTooMany,
                         0, <<>>, <<Len(words), Len(sentences)>>, <<>>)
      ELSE IF unused_words # {} THEN
        ValidationResult(FALSE, MsgUnused, 0, SetToWordList(unused_words), <<>>, <<>>)
      ELSE
        ValidationResult(TRUE, MsgPassed, 0, <<>>, <<>>, sentence_word_matches)

ValidateFromCountsOnly(sentences, words, i, used_words, sentence_word_matches) ==
  ValidateCounts(sentences, words, used_words, sentence_word_matches)

\* variant: a word may be matched by more than one sentence
RECURSIVE ValidateFromReuseAllowed(_, _, _, _, _)
ValidateFromReuseAllowed(sentences, words, i, used_words, sentence_word_matches) ==
  IF i >= Len(sentences) THEN
    ValidateCounts(sentences, words, used_words, sentence_word_matches)
  ELSE
    LET sentence_matches == SentenceMatches(sentences[i + 1], words)
    IN  IF Len(sentence_matches) = 0 THEN
          ValidationResult(FALSE, MsgNoMatch, i + 1, <<>>, <<>>, <<>>)
        ELSE IF Len(sentence_matches) > 1 THEN
          ValidationResult(FALSE, MsgMultiple, i + 1, sentence_matches, <<>>, <<>>)
        ELSE
          ValidateFromReuseAllowed(sentences, words, i + 1,
                       used_words \cup {sentence_matches[1]},
                       [k \in DOMAIN sentence_word_matches \cup {i} |->
                          IF k = i THEN sentence_matches[1]
                          ELSE sentence_word_matches[k]])

\* for i, sentence in enumerate(sentences): ... from index i on
RECURSIVE ValidateFrom(_, _, _, _, _)
ValidateFrom(sentences, words, i, used_words, sentence_word_matches) ==
  IF i >= Len(sentences) THEN
    ValidateCounts(sentences, words, used_words, sentence_word_matches)
  ELSE
    LET sentence_matches == SentenceMatches(sentences[i + 1], words)
    IN  IF Len(sentence_matches) = 0 THEN
          ValidationResult(FALSE, MsgNoMatch, i + 1, <<>>, <<>>, <<>>)
        ELSE IF Len(sentence_matches) > 1 THEN
          ValidationResult(FALSE, MsgMultiple, i + 1, sentence_matches, <<>>, <<>>)
        ELSE IF sentence_matches[1] \in used_words THEN
          ValidationResult(FALSE, MsgReused, 0, <<sentence_matches[1]>>, <<>>, <<>>)
        ELSE
          ValidateFrom(sentences, words, i + 1,
                       used_words \cup {sentence_matches[1]},
                       [k \in DOMAIN sentence_word_matches \cup {i} |->
                          IF k = i THEN sentence_matches[1]
                          ELSE sentence_word_matches[k]])

ValidateStoryOn(story_content, words) ==
  ValidateFrom(Sentences(story_content), words, 0, {}, <<>>)

\* the Submit Story button calls validate_story on the text and the words
ValidateStory ==
  /\ validation_result = NotValidated
  /\ validation_result' = ValidateStoryOn(validate_story_content, owned_vocab_words)
  /\ UNCHANGED << ledger, rating_state, service_state, editor_state,
                  validate_story_content, owned_vocab_words, result >>

\* ------------------------------------------------------------------------
\* The story editor: the text area, the Submit Story button and the rate
\* panel with Confirm Submission and Cancel
\* ------------------------------------------------------------------------

\* round data whose two words are written as characters
LetterConfig ==
  [RoundConfig EXCEPT
     !.vocabularies = << [id |-> 1, word |-> <<"a">>, price |-> 1000],
                         [id |-> 2, word |-> <<"b">>, price |-> 1000] >>,
     !.combinations = << RoundConfig.combinations[1] >>]

\* texts a participant types into the text area
TypedStories == {<<"a">>, <<"b", "!">>, <<"a", ".", "b">>}

\* owned_vocab_words of the Submit Story button: the words of the owned ids
\* that the catalog has
OwnedVocabWords(cfg, owned) ==
  LET ids == SetToList({v \in owned : VocabIndex(cfg, v) # 0})
  IN  [i \in 1..Len(ids) |-> cfg.vocabularies[VocabIndex(cfg, ids[i])].word]

\* on_change of the text area, which is drawn while the rate panel is not
\* shown and the participant owns a word
UpdateStoryContent(text) ==
  /\ ~show_ip_rate_setting
  /\ owned_vocabs # {}
  /\ session_story_content' = text
  /\ UNCHANGED << ledger, result, rating_state, validator_state, service_state,
                  show_ip_rate_setting >>

\* the Submit Story button: validate_story, and on success the rate panel
SubmitStoryButton ==
  LET validation == ValidateStoryOn(session_story_content,
                                    OwnedVocabWords(round_config, owned_vocabs))
  IN  /\ IF Len(session_story_content) = 0 THEN
            /\ result' = Result(FALSE, "Please write your story content before submitting")
            /\ UNCHANGED show_ip_rate_setting
          ELSE IF validation.valid THEN
            /\ result' = Result(TRUE, validation.message)
            /\ show_ip_rate_setting' = TRUE
          ELSE
            /\ result' = Result(FALSE, validation.message)
            /\ UNCHANGED show_ip_rate_setting
      /\ UNCHANGED << ledger, rating_state, validator_state, service_state,
                      session_story_content >>

\* the Confirm Submission button of the rate panel; the slider enables it
\* once a rate is set; a submission that handle_submit_story accepts closes
\* the panel and clears the text
ConfirmSubmissionButton(content_ip_rate) ==
  /\ show_ip_rate_setting
  /\ content_ip_rate # 0
  /\ HandleSubmitStory(session_story_content, content_ip_rate)
  /\ IF SubmitStoryError(session_story_content, content_ip_rate) = "" THEN
       /\ show_ip_rate_setting' = FALSE
       /\ session_story_content' = <<>>
     ELSE
       UNCHANGED editor_state

\* the Cancel button of the rate panel
CancelButton ==
  /\ show_ip_rate_setting
  /\ show_ip_rate_setting' = FALSE
  /\ result' = Result(TRUE, "")
  /\ UNCHANGED << ledger, rating_state, validator_state, service_state,
                  session_story_content >>

InitEditor ==
  /\ round_config = LetterConfig
  /\ InitSession
  /\ validate_story_content = <<>>
  /\ owned_vocab_words = <<>>
  /\ validation_result = NotValidated

NextEditor ==
  \/ HandleDrawRandomWord
  \/ \E c \in ComboIds : HandlePurchaseCombination(c)
  \/ \E text \in TypedStories : UpdateStoryContent(text)
  \/ SubmitStoryButton
  \/ \E r \in IpRates : ConfirmSubmissionButton(r)
  \/ CancelButton

SpecEditor == InitEditor /\ [][NextEditor]_vars

Next ==
  \/ \E c \in ComboIds : HandlePurchaseCombination(c)
  \/ \E c \in ComboIds, s \in StoryIndexes : HandlePurchaseStoryContent(c, s)
  \/ HandleDrawRandomWord
  \/ SyncToDatabase
  \/ \E c \in StoryContents \cup {""} : CheckAndSave(c)
  \/ \E c \in StoryContents \cup {""}, r \in IpRates : ConfirmSubmission(c, r)

Spec == Init /\ [][Next]_vars

\* The rating page: calls of create_rating by two raters on two stories
NextRating ==
  \E p \in Raters, a \in RatedAssetIds, s \in ScoreInputs, r \in RatingIpRates :
    CreateRating(p, a, s[1], s[2], s[3], r)

SpecRating == Init /\ [][NextRating]_vars

\* validate_story as a function: every story text and every list of owned
\* words within the bounds
InitValidator ==
  /\ round_config \in RoundConfigs
  /\ InitSession
  /\ validate_story_content \in StoryTexts
  /\ owned_vocab_words \in OwnedWordLists
  /\ validation_result = NotValidated

NextValidator == ValidateStory

SpecValidator == InitValidator /\ [][NextValidator]_vars

\* A session resumed by a participant who saved drafts in an earlier
\* session: init_session_state reads the persisted balance, the owned ids
\* and the assets (newest first) from the table.
SavedDrafts(n) ==
  [i \in 1..n |-> UserAsset(i, "story_draft", "s1", "active", <<>>, 0, -1, -1, 0)]

InitDrafts ==
  /\ round_config \in RoundConfigs
  /\ db_assets \in {SavedDrafts(n) : n \in (DraftRetention - 1)..DraftRetention}
  /\ db_balance = InitialEarnings
  /\ CacheAfterInit
  /\ current_balance = db_balance
  /\ owned_vocabs = GetPlayerVocabularies(db_assets)
  /\ player_assets = GetPlayerAssets(db_assets)
  /\ transaction_history = <<>>
  /\ result = Result(TRUE, "")
  /\ appends = 0
  /\ appended_tids = {}
  /\ submit_flushes = <<>>
  /\ story_ratings = <<>>
  /\ rating_call = <<"", 0>>
  /\ stories_for_rating = <<>>
  /\ generated_asset_id = <<>>
  /\ session_story_content = <<>>
  /\ show_ip_rate_setting = FALSE
  /\ NoTransfers
  /\ validate_story_content = <<>>
  /\ owned_vocab_words = <<>>
  /\ validation_result = NotValidated

NextDrafts ==
  \/ \E c \in StoryContents \cup {""} : CheckAndSave(c)
  \/ SyncToDatabase

SpecDrafts == InitDrafts /\ [][NextDrafts]_vars

\* First access of a participant under round data whose initial_balance is
\* the shipped one or another one; PlayerService.create_player writes the
\* balance of InitSession whatever the round data says.
HighBalanceConfig == [RoundConfig EXCEPT !.initial_balance = 2 * InitialEarnings]

BalanceConfigs == {RoundConfig, HighBalanceConfig}

InitJoin ==
  /\ round_config \in BalanceConfigs
  /\ InitSession
  /\ validate_story_content = <<>>
  /\ owned_vocab_words = <<>>
  /\ validation_result = NotValidated

NextJoin ==
  \/ \E c \in ComboIds : HandlePurchaseCombination(c)
  \/ \E c \in ComboIds, s \in StoryIndexes : HandlePurchaseStoryContent(c, s)
  \/ HandleDrawRandomWord
  \/ SyncToDatabase

SpecJoin == InitJoin /\ [][NextJoin]_vars

\* Participants submit and resubmit stories while raters open the rating page
NextRatingPage ==
  \/ \E c \in StoryContents \cup {""}, r \in IpRates : ConfirmSubmission(c, r)
  \/ \E p \in Raters : OpenRatingPage(p)

SpecRatingPage == Init /\ [][NextRatingPage]_vars

\* create_asset calls of one participant, several of them in a millisecond
NextAssetIds ==
  \E t \in AssetTypes, ts \in Timestamps, r \in RandomSuffixes : CreateAssetCall(t, ts, r)

SpecAssetIds == Init /\ [][NextAssetIds]_vars

\* Pages and service methods asking for the round data while time passes
NextCache ==
  \/ \E n \in RoundNumbers : GetRoundConfig(n)
  \/ \E n \in RoundNumbers : GetRoundConfigSameSession(n)
  \/ Tick

SpecCache == Init /\ [][NextCache]_vars

\* The purchase handlers on every round data of PricingConfigs
InitPricing ==
  /\ round_config \in PricingConfigs
  /\ InitSession
  /\ validate_story_content = <<>>
  /\ owned_vocab_words = <<>>
  /\ validation_result = NotValidated

NextPricing ==
  \/ \E c \in ComboIds : HandlePurchaseCombination(c)
  \/ \E c \in ComboIds, s \in StoryIndexes : HandlePurchaseStoryContent(c, s)
  \/ HandleDrawRandomWord

SpecPricing == InitPricing /\ [][NextPricing]_vars

\* ------------------------------------------------------------------------
\* Properties
\* ------------------------------------------------------------------------

SyncMessages == {"Successfully synced to database!", "Sync to database failed"}

\* The last handler ran sync_to_database (alone or after it staged an entry)
LastWasSync == result.message \in SyncMessages

\* tids of the persisted assets and of the pending entries
PersistedTids == {db_assets[i].tid : i \in 1..Len(db_assets)}

PendingTids == {transaction_history[i].tid : i \in 1..Len(transaction_history)}

\* asset kinds whose transaction has a dedup key
DedupTypes == {"vocabulary", "story_template", "vocabulary_draw", "user_creation"}

\* C1: when sync_to_database runs right after a run of sync_to_database,
\* with nothing appended in between, the number of persisted assets after
\* the second run equals the number after the first.  Stated for the pending
\* queues whose entries the first run has all persisted, where an asset
\* added by the second run is a duplicate.
C1_FlushTwiceKeepsAssetCount ==
  [][(LastWasSync /\ PendingTids \subseteq PersistedTids /\ SyncToDatabase)
       => Len(db_assets') = Len(db_assets)]_vars

\* C2: no transaction of a kind that has a dedup key is persisted twice,
\* whatever flushes failed and were retried.
C2_NoDuplicatePersistence ==
  \A i, j \in 1..Len(db_assets) :
    (i # j /\ db_assets[i].tid = db_assets[j].tid)
      => db_assets[i].asset_type \notin DedupTypes

\* The dedup key of a pending entry matches a persisted asset: the sorted
\* vocab ids of a bundle, the content of a bought story, the drawn vocab id,
\* the content of a submitted story.
StoryContentOf(tx) ==
  LET ci == ComboIndex(round_config, tx.combo_id)
      si == FirstIndex(round_config.combinations[ci].stories,
                       LAMBDA st : st.id = tx.story_id)
  IN  round_config.combinations[ci].stories[si].content

DedupKeyPersisted(tx, db) ==
  \E k \in 1..Len(db) :
    \/ /\ tx.type = "purchase_combination"
       /\ db[k].asset_type = "vocabulary"
       /\ SortedTuple(db[k].used_vocabularies)
            = SortedTuple(round_config.combinations[ComboIndex(round_config, tx.combo_id)].vocab_ids)
    \/ /\ tx.type = "purchase_story"
       /\ db[k].asset_type = "story_template"
       /\ db[k].content = StoryContentOf(tx)
    \/ /\ tx.type = "draw_word"
       /\ db[k].asset_type = "vocabulary_draw"
       /\ db[k].used_vocabularies = <<tx.vocab_id>>
    \/ /\ tx.type = "submit_story"
       /\ db[k].asset_type = "user_creation"
       /\ db[k].content = tx.content

AssetsOfTid(db, tid) == {k \in 1..Len(db) : db[k].tid = tid}

\* C3: a flush that succeeds creates no asset for a pending entry whose
\* dedup key matches an asset of the snapshot, and removes the entry from
\* transaction_history.
C3_DuplicateSkippedAndRemoved ==
  [][(SyncToDatabase /\ result'.success) =>
       \A i \in 1..Len(transaction_history) :
         DedupKeyPersisted(transaction_history[i], db_assets) =>
           /\ AssetsOfTid(db_assets', transaction_history[i].tid)
                = AssetsOfTid(db_assets, transaction_history[i].tid)
           /\ transaction_history[i].tid \notin
                {transaction_history'[k].tid : k \in 1..Len(transaction_history')}]_vars

\* C4: an entry that has been appended to transaction_history and is no
\* longer in it has an asset persisted for it.
C4_AbsentOnlyIfPersisted ==
  \A t \in appended_tids : t \notin PendingTids => t \in PersistedTids

C4_Witness ==
  \E t \in appended_tids : t \notin PendingTids /\ t \in PersistedTids

UserCreationRows == {i \in 1..Len(db_assets) : db_assets[i].asset_type = "user_creation"}

LiveStatuses == {"submitted", "active"}

TwoSubmissionsFlushed ==
  /\ Len(submit_flushes) >= 2
  /\ \A i \in 1..Len(submit_flushes) : submit_flushes[i]

\* C5: after two submissions, each followed by its own successful flush,
\* exactly one user_creation row is submitted/active and every earlier
\* user_creation row is inactive.
C5_SingleActiveCreation ==
  TwoSubmissionsFlushed =>
    /\ Cardinality({i \in UserCreationRows : db_assets[i].status \in LiveStatuses}) = 1
    /\ \A i \in UserCreationRows :
         (\E k \in UserCreationRows : k > i) => db_assets[i].status = "inactive"

C5_Witness ==
  /\ TwoSubmissionsFlushed
  /\ Cardinality(UserCreationRows) >= 2

RatedPairs(ratings) ==
  {<<ratings[i].player_id, ratings[i].asset_id>> : i \in 1..Len(ratings)}

\* C6: create_rating leaves at most one row per (player_id, asset_id); a
\* call for a pair that has a row returns None, adds no row and leaves the
\* scores of the existing row unchanged.
C6_RatingUniqueness ==
  [][rating_call' # <<"", 0>> =>
       /\ Cardinality(RatedPairs(story_ratings')) = Len(story_ratings')
       /\ rating_call' \in RatedPairs(story_ratings) =>
            /\ result' = Result(FALSE, "None")
            /\ story_ratings' = story_ratings]_vars

C6_Witness ==
  /\ rating_call \in RatedPairs(story_ratings)
  /\ result = Result(FALSE, "None")
  /\ story_ratings[1].player_id = rating_call[1]
  /\ story_ratings[1].asset_id = rating_call[2]
  /\ Len(story_ratings) = 2

SumPrices(cfg, ids) ==
  LET RECURSIVE Sum(_)
      Sum(S) == IF S = {} THEN 0
                ELSE LET v == CHOOSE x \in S : TRUE
                     IN  cfg.vocabularies[VocabIndex(cfg, v)].price + Sum(S \ {v})
  IN  Sum({v \in ids : VocabIndex(cfg, v) # 0})

ExpectedStoryPrice(combo, story, owned) ==
  LET total == SumPrices(round_config, Range(combo.vocab_ids))
      missing == SumPrices(round_config, Range(combo.vocab_ids) \ owned)
      content == (total * (story.content_ip_rate - 10)) \div 10
  IN  IF missing = 0 THEN content ELSE content + missing

\* C7: a successful handle_purchase_story_content lowers current_balance by
\* the actual price (the content price when no bundle word is missing, else
\* content price plus the price of the missing words) and leaves every
\* vocab id of the bundle owned.
C7_StoryPurchaseCharge ==
  [][\A c \in ComboIds, s \in StoryIndexes :
       (HandlePurchaseStoryContent(c, s) /\ result'.success) =>
         LET combo == round_config.combinations[ComboIndex(round_config, c)]
         IN  /\ current_balance' = current_balance
                  - ExpectedStoryPrice(combo, combo.stories[s + 1], owned_vocabs)
             /\ Range(combo.vocab_ids) \subseteq owned_vocabs']_vars

C7_Witness ==
  /\ current_balance = InitialEarnings - 3000
  /\ owned_vocabs = {1, 2}
  /\ Len(transaction_history) = 1
  /\ transaction_history[1].type = "purchase_story"
  /\ transaction_history[1].cost = 3000

\* C8: when every vocab id of the bundle is already owned, the story costs
\* total_vocab_price * (content_ip_rate - 1), in the page handler and in
\* the service's price computation alike.
C8_OwnedBundleChargesContentOnly ==
  [][\A c \in ComboIds \ {"cx"}, s \in StoryIndexes :
       LET combo == round_config.combinations[ComboIndex(round_config, c)]
           total == SumPrices(round_config, Range(combo.vocab_ids))
       IN  s < Len(combo.stories) =>
             LET content == (total * (combo.stories[s + 1].content_ip_rate - 10)) \div 10
             IN  /\ (/\ HandlePurchaseStoryContent(c, s)
                     /\ result'.success
                     /\ Range(combo.vocab_ids) \subseteq owned_vocabs)
                      => current_balance - current_balance' = content
                 /\ Range(combo.vocab_ids) \subseteq owned_vocabs
                      => ServerActualPrice(round_config, combo.vocab_ids, owned_vocabs,
                                           combo.stories[s + 1].content_ip_rate) = content]_vars

C8_Witness ==
  \E i \in 1..Len(transaction_history) :
    /\ transaction_history[i].type = "purchase_story"
    /\ transaction_history[i].combo_id = "ca1"
    /\ transaction_history[i].cost = 1000
    /\ current_balance = InitialEarnings - 3000

PurchaseStep ==
  \/ \E c \in ComboIds : HandlePurchaseCombination(c)
  \/ \E c \in ComboIds, s \in StoryIndexes : HandlePurchaseStoryContent(c, s)
  \/ HandleDrawRandomWord

\* C9: a purchase or draw is accepted only when its price is at most the
\* local balance, and the local balance is never negative.
C9_Affordability ==
  [][/\ current_balance' >= 0
     /\ (PurchaseStep /\ result'.success) =>
          transaction_history'[Len(transaction_history')].cost <= current_balance]_vars

C9_Witness ==
  /\ current_balance = 0
  /\ result = Result(FALSE, "Insufficient balance")

\* C10: a purchase or draw that fails for an expected reason (insufficient
\* balance, already owned, invalid selection, nothing left to draw) returns
\* a message and leaves balance, owned set, local assets and queue as they
\* were.
C10_FailureLeavesSessionUnchanged ==
  [][(PurchaseStep /\ ~result'.success) =>
       /\ result'.message # ""
       /\ UNCHANGED session]_vars

C10_Witness ==
  /\ result = Result(FALSE, "You have already purchased this story")
  /\ Len(transaction_history) > 0

\* C11: after every flush that returns success the persisted balance of
\* the participant equals current_balance.
C11_BalancePersistedOnSuccess ==
  result = Result(TRUE, "Successfully synced to database!")
    => db_balance = current_balance

C11_Witness ==
  /\ result = Result(TRUE, "Successfully synced to database!")
  /\ current_balance < InitialEarnings
  /\ db_balance = current_balance

\* C12: a run of sync_to_database that fails leaves transaction_history,
\* current_balance and owned_vocabs exactly as they were when it started.
C12_FailedSyncRetainsLocalState ==
  [][(SyncToDatabase /\ ~result'.success) =>
       /\ transaction_history' = transaction_history
       /\ current_balance' = current_balance
       /\ owned_vocabs' = owned_vocabs]_vars

\* C13: when a flush fails at a pending entry, the entries it processed
\* before that one (an asset was created for them in this flush) are no
\* longer in transaction_history; only the unprocessed remainder is.
C13_PartialProgressOnFailure ==
  [][(/\ result' = Result(FALSE, "Sync to database failed")
      /\ \E j \in 1..Len(transaction_history') :
           AssetsOfTid(db_assets', transaction_history'[j].tid) = {})
       => \A i \in 1..Len(transaction_history') :
            AssetsOfTid(db_assets', transaction_history'[i].tid)
              = AssetsOfTid(db_assets, transaction_history'[i].tid)]_vars

\* The sentences of the validated text, stated by position: the maximal
\* runs of non-terminator characters that are not blank, in text order,
\* without the blanks at their ends.
TextSegments ==
  LET t == validate_story_content
  IN  {sg \in (1..Len(t)) \X (1..Len(t)) :
         /\ sg[1] <= sg[2]
         /\ \A k \in sg[1]..sg[2] : ~IsTerminator(t[k])
         /\ sg[1] = 1 \/ IsTerminator(t[sg[1] - 1])
         /\ sg[2] = Len(t) \/ IsTerminator(t[sg[2] + 1])
         /\ \E k \in sg[1]..sg[2] : t[k] # " "}

TextSentence(sg) ==
  LET t == validate_story_content
      inked == {k \in sg[1]..sg[2] : t[k] # " "}
  IN  SubSeq(t, Min(inked), CHOOSE k \in inked : \A m \in inked : m <= k)

TextSentences ==
  [n \in 1..Cardinality(TextSegments) |->
     TextSentence(CHOOSE sg \in TextSegments :
                    Cardinality({o \in TextSegments : o[1] < sg[1]}) = n - 1)]

\* the owned words that occur in sentence n, letter case ignored
WordsFound(n) ==
  {w \in Range(owned_vocab_words) :
     \E a \in 1..Len(TextSentences[n]) :
       /\ a + Len(w) - 1 <= Len(TextSentences[n])
       /\ \A k \in 1..Len(w) : Lower(TextSentences[n][a + k - 1]) = Lower(w[k])}

\* sentence n breaks a per-sentence rule: no owned word, several, or the
\* word of an earlier sentence
BreaksRule(n) ==
  \/ Cardinality(WordsFound(n)) # 1
  \/ \E m \in 1..(n - 1) : WordsFound(m) = WordsFound(n)

RuleBreakers == {n \in 1..Len(TextSentences) : BreaksRule(n)}

Validated == validation_result # NotValidated

OneWordPerSentence ==
  /\ Len(TextSentences) = Len(owned_vocab_words)
  /\ \A n \in 1..Len(TextSentences) : Cardinality(WordsFound(n)) = 1
  /\ \A n, m \in 1..Len(TextSentences) : n # m => WordsFound(n) # WordsFound(m)

\* C14: for a story with as many sentences as owned words, each sentence
\* containing exactly one owned word and no word in two sentences,
\* validate_story returns valid=True and a matches map that gives every
\* sentence index 0..n-1 its word, the words distinct and all covered.
C14_ValidatorBijection ==
  (Validated /\ OneWordPerSentence) =>
    /\ validation_result.valid
    /\ DOMAIN validation_result.matches = 0..(Len(TextSentences) - 1)
    /\ \A i \in DOMAIN validation_result.matches :
         WordsFound(i + 1) = {validation_result.matches[i]}
    /\ \A i, k \in DOMAIN validation_result.matches :
         i # k => validation_result.matches[i] # validation_result.matches[k]
    /\ {validation_result.matches[i] : i \in DOMAIN validation_result.matches}
         = Range(owned_vocab_words)

C14_Witness ==
  /\ Validated
  /\ OneWordPerSentence
  /\ Len(owned_vocab_words) = 2
  /\ \E k \in 1..Len(validate_story_content) : validate_story_content[k] = "A"

\* C15 as stated: every sentence that contains none of the owned words, at
\* whatever position, makes validate_story return valid=False with the
\* "does not contain any" message for that sentence.
C15_EmptyMatchAlwaysReported ==
  Validated =>
    \A n \in 1..Len(TextSentences) :
      WordsFound(n) = {} =>
        /\ ~validation_result.valid
        /\ validation_result.message = MsgNoMatch
        /\ validation_result.sentence = n

\* C15 amended: a story with a sentence that contains none of the owned
\* words is never valid, and the "does not contain any" message for
\* sentence i+1 is returned when that sentence is the first one to break a
\* per-sentence rule.
C15_EmptyMatchReportedWhenFirst ==
  Validated =>
    \A n \in 1..Len(TextSentences) :
      WordsFound(n) = {} =>
        /\ ~validation_result.valid
        /\ n = Min(RuleBreakers) =>
             /\ validation_result.message = MsgNoMatch
             /\ validation_result.sentence = n

C15_Witness ==
  /\ Validated
  /\ Len(TextSentences) = 2
  /\ WordsFound(1) # {}
  /\ WordsFound(2) = {}
  /\ validation_result.message = MsgNoMatch
  /\ validation_result.sentence = 2

\* C16: validate_story reports the error of the first sentence, in sentence
\* order, that breaks a per-sentence rule (no match, multiple matches,
\* reused word), and a sentence-count mismatch only when no sentence breaks
\* one.
C16_ShortCircuitOrder ==
  Validated =>
    /\ RuleBreakers # {} =>
         LET n == Min(RuleBreakers)
         IN  /\ ~validation_result.valid
             /\ Cardinality(WordsFound(n)) = 0 =>
                  /\ validation_result.message = MsgNoMatch
                  /\ validation_result.sentence = n
             /\ Cardinality(WordsFound(n)) > 1 =>
                  /\ validation_result.message = MsgMultiple
                  /\ validation_result.sentence = n
                  /\ Range(validation_result.words) = WordsFound(n)
             /\ Cardinality(WordsFound(n)) = 1 =>
                  /\ validation_result.message = MsgReused
                  /\ WordsFound(n) = Range(validation_result.words)
    /\ validation_result.message \in {MsgTooFew, MsgTooMany} =>
         /\ RuleBreakers = {}
         /\ Len(TextSentences) # Len(owned_vocab_words)

C16_Witness ==
  /\ Validated
  /\ Len(TextSentences) = 2
  /\ Len(owned_vocab_words) = 3
  /\ RuleBreakers = {2}
  /\ validation_result.message = MsgReused

\* the orderings of a list of ids
Orderings(ids) ==
  {[i \in 1..Len(ids) |-> ids[f[i]]] : f \in Permutations(1..Len(ids))}

CatalogIds == {round_config.vocabularies[i].id : i \in 1..Len(round_config.vocabularies)}

Bundles == Range(round_config.combinations)

\* C17: the price computed for a bundle is the sum of the catalog prices of
\* the vocabulary entries its vocab_ids name, whatever the order of the
\* ids; a bundle purchase is charged that sum.
C17_BundlePriceIsSum ==
  /\ \A b \in Bundles : \A o \in Orderings(b.vocab_ids) :
       TotalVocabPrice(round_config, o) = SumPrices(round_config, Range(b.vocab_ids))
  /\ \A i \in 1..Len(transaction_history) :
       transaction_history[i].type = "purchase_combination" =>
         transaction_history[i].cost
           = SumPrices(round_config,
                       Range(round_config.combinations[
                               ComboIndex(round_config, transaction_history[i].combo_id)].vocab_ids))

C17_Witness ==
  /\ round_config = ReorderedBundleConfig
  /\ \E i \in 1..Len(transaction_history) :
       /\ transaction_history[i].type = "purchase_combination"
       /\ transaction_history[i].combo_id = "ca1"
       /\ transaction_history[i].cost = 2000

\* C18: buying a bundle that names a vocab id absent from the catalog
\* fails: the handler returns failure and the purchase is not carried out.
C18_MissingVocabIdFails ==
  [][\A c \in ComboIds \ {"cx"} :
       (/\ HandlePurchaseCombination(c)
        /\ ~(Range(round_config.combinations[ComboIndex(round_config, c)].vocab_ids)
               \subseteq CatalogIds))
         => /\ ~result'.success
            /\ UNCHANGED session]_vars

\* C19: a story whose content_ip_rate is below 1.0 is bought at content
\* price 0, and the purchase never raises current_balance.
C19_ContentPriceClamped ==
  [][\A c \in ComboIds \ {"cx"}, s \in StoryIndexes :
       (/\ HandlePurchaseStoryContent(c, s)
        /\ result'.success
        /\ round_config.combinations[ComboIndex(round_config, c)].stories[s + 1].content_ip_rate < 10)
         => /\ transaction_history'[Len(transaction_history')].content_price = 0
            /\ current_balance' <= current_balance]_vars

\* C20: for a bundle with non-negative vocabulary prices and a story with
\* content_ip_rate >= 1.0 the content price total_vocab_price *
\* (content_ip_rate - 1) is >= 0, as computed for the catalog and as
\* recorded by a purchase.
C20_ContentPriceFloor ==
  /\ \A b \in Bundles : \A st \in Range(b.stories) :
       (/\ st.content_ip_rate >= 10
        /\ \A i \in 1..Len(round_config.vocabularies) :
             round_config.vocabularies[i].price >= 0)
         => ContentPrice(TotalVocabPrice(round_config, b.vocab_ids), st.content_ip_rate) >= 0
  /\ \A i \in 1..Len(transaction_history) :
       (/\ transaction_history[i].type = "purchase_story"
        /\ round_config.combinations[ComboIndex(round_config, transaction_history[i].combo_id)]
             .stories[transaction_history[i].story_index + 1].content_ip_rate >= 10)
         => transaction_history[i].content_price >= 0

C20_Witness ==
  \E i \in 1..Len(transaction_history) :
    /\ transaction_history[i].type = "purchase_story"
    /\ transaction_history[i].combo_id = "ca5"
    /\ transaction_history[i].content_price = 5000

DraftRows == {i \in 1..Len(db_assets) : db_assets[i].asset_type = "story_draft"}

\* C21: after a flush that returns success at most 5 story_draft rows have
\* a status other than inactive, and they are the 5 newest.
C21_DraftRetention ==
  result = Result(TRUE, "Successfully synced to database!") =>
    \A i \in DraftRows :
      db_assets[i].status # "inactive" =>
        Cardinality({k \in DraftRows : k >= i}) <= DraftRetention

C23_LicenseRatePersisted ==
  [][ \A c \in StoryContents, r \in IpRates :
        (ConfirmSubmission(c, r) /\ SubmitStoryError(c, r) = "") =>
          \A i \in 1..Len(db_assets') :
            ( /\ i > Len(db_assets)
              /\ db_assets'[i].asset_type = "user_creation"
              /\ db_assets'[i].tid = NextTid + 1 ) =>
                /\ db_assets'[i].content_ip_rate = r
                /\ db_assets'[i].status = "submitted"
    ]_vars

\* C24: the persisted balance of a participant created on first access is
\* the initial_balance of the round data, whatever value is configured
\* (checked until the first entry is staged, while no flush can have
\* written another balance).
C24_InitialBalanceFromConfig ==
  appends = 0 => db_balance = round_config.initial_balance

CacheKeys(cache) == {<<cache[i].db, cache[i].round_number>> : i \in 1..Len(cache)}

\* C26: a get_round_config call reads the store only if no call for the same
\* round number read it within the last 300 seconds, whatever Session the
\* calls come with, and an entry leaves the cache only when its time is over.
C26_RoundConfigCache ==
  [][ /\ Len(store_reads') > Len(store_reads) =>
           \A i \in 1..Len(store_reads) :
             store_reads[i].round_number = store_reads'[Len(store_reads')].round_number =>
               store_reads'[Len(store_reads')].at - store_reads[i].at >= CacheTtl
      /\ \A i \in 1..Len(round_config_cache) :
           <<round_config_cache[i].db, round_config_cache[i].round_number>>
               \notin CacheKeys(round_config_cache') =>
             round_config_cache[i].expires <= clock'
    ]_vars

\* C27: a user_creation that a resubmission has marked inactive is never in
\* the list of stories the rating page presents to a rater.
C27_SupersededNotOffered ==
  \A i \in 1..Len(stories_for_rating) : stories_for_rating[i].status # "inactive"

\* C28: create_asset never builds an asset_id that a persisted asset has
\* already, also for creations of one participant that follow each other
\* within one flush.
C28_AssetIdsUnique ==
  [][ generated_asset_id' # generated_asset_id \/ db_assets' # db_assets \/ result' # result =>
        generated_asset_id' \notin AssetIds(db_assets) ]_vars

RatingScores(rating) ==
  {rating.creativity_score, rating.coherence_score, rating.overall_score}

\* C30: every row of story_ratings has its three scores in 1..7, and a
\* create_rating call with a score outside 1..7 returns None and adds no row.
C30_RatingScoresInRange ==
  [][ /\ \A i \in 1..Len(story_ratings') : RatingScores(story_ratings'[i]) \subseteq 1..7
      /\ \A p \in Raters, a \in RatedAssetIds, s \in ScoreInputs, r \in RatingIpRates :
           (CreateRating(p, a, s[1], s[2], s[3], r) /\ ~({s[1], s[2], s[3]} \subseteq 1..7)) =>
             /\ result' = Result(FALSE, "None")
             /\ story_ratings' = story_ratings
    ]_vars

C30_Witness ==
  /\ result = Result(FALSE, "None")
  /\ rating_call \notin RatedPairs(story_ratings)
  /\ rating_call # <<"", 0>>
  /\ Len(story_ratings) >= 1

\* C31: in every reachable state, also after a failed flush followed by a
\* resubmission or a retry, at most one persisted user_creation row of the
\* participant has status active or submitted.
C31_OneLiveCreation ==
  Cardinality({i \in UserCreationRows : db_assets[i].status \in LiveStatuses}) <= 1

\* C32: a submit_story entry is staged only with a story that
\* validate_story accepts for the words the participant owns when the entry
\* is appended, whatever was bought or drawn since Submit Story was pressed.
C32_StagedStoryIsValid ==
  [][ (show_ip_rate_setting /\ ~show_ip_rate_setting' /\ appends' = appends + 1) =>
        ValidateStoryOn(session_story_content,
                        OwnedVocabWords(round_config, owned_vocabs)).valid ]_vars

\* a step of handle_draw_random_word that staged a draw_word entry
DrawStaged ==
  /\ Len(transaction_history') = Len(transaction_history) + 1
  /\ transaction_history'[Len(transaction_history')].type = "draw_word"

\* vocab ids of the draw_word entries of the session: those in the queue and
\* those a flush has persisted as vocabulary_draw rows
DrawnIds ==
  {transaction_history[i].vocab_id :
     i \in {k \in 1..Len(transaction_history) : transaction_history[k].type = "draw_word"}}
  \cup UNION {Range(db_assets[i].used_vocabularies) :
                i \in {k \in 1..Len(db_assets) : db_assets[k].asset_type = "vocabulary_draw"}}

\* C33: a draw yields an id the participant does not own, costs DrawPrice
\* whatever the word's catalog price, and is refused with no state change
\* when every catalog word is owned; no two draw_word entries of a session
\* carry the same vocab id.
C33_DrawYieldsUnownedWord ==
  [][ /\ DrawStaged =>
           LET tx == transaction_history'[Len(transaction_history')]
           IN  /\ tx.vocab_id \notin owned_vocabs
               /\ tx.vocab_id \notin DrawnIds
               /\ owned_vocabs' = owned_vocabs \cup {tx.vocab_id}
               /\ tx.cost = DrawPrice
               /\ current_balance' = current_balance - DrawPrice
      /\ result' = Result(FALSE, "No more words available to draw") =>
           UNCHANGED << ledger, rating_state >>
    ]_vars

C33_Witness ==
  /\ result = Result(FALSE, "No more words available to draw")
  /\ \E i \in 1..Len(round_config.vocabularies) :
       /\ round_config.vocabularies[i].id \in DrawnIds
       /\ round_config.vocabularies[i].price # DrawPrice

\* C34: after a flush that returns success the owned ids read back from
\* the table are the ids the session tracked just before the flush.
C34_OwnedSetReadBack ==
  [][ result' = Result(TRUE, "Successfully synced to database!") =>
        owned_vocabs' = owned_vocabs ]_vars

C34_Witness ==
  /\ result = Result(TRUE, "Successfully synced to database!")
  /\ Cardinality(owned_vocabs) >= 2
  /\ \E i \in 1..Len(db_assets) : db_assets[i].asset_type = "vocabulary_draw"
  /\ \E i \in 1..Len(db_assets) : db_assets[i].asset_type = "story_template"

PurchaseTypes == {"vocabulary", "story_template", "vocabulary_draw"}

RECURSIVE SumPricePaid(_)
SumPricePaid(rows) ==
  IF rows = <<>> THEN 0
  ELSE (IF Head(rows).asset_type \in PurchaseTypes THEN Head(rows).price_paid ELSE 0)
       + SumPricePaid(Tail(rows))

\* C35: whenever a flush returns success and leaves the queue empty, the
\* persisted balance is the balance at session start minus the sum of
\* price_paid over the vocabulary, story_template and vocabulary_draw rows
\* persisted during the session.
C35_BalanceAccounting ==
  (result = Result(TRUE, "Successfully synced to database!") /\ transaction_history = <<>>) =>
    db_balance = InitialEarnings - SumPricePaid(StoredThisSession(db_assets))

C35_Witness ==
  /\ result = Result(TRUE, "Successfully synced to database!")
  /\ transaction_history = <<>>
  /\ Cardinality({db_assets[i].asset_type : i \in 1..Len(db_assets)} \cap PurchaseTypes) >= 2
  /\ db_balance < InitialEarnings

\* The seeded bundle ca5 with both of its rare words (va9 and va10, 50.00
\* each), so that the bundle costs the whole starting balance
RareBundleConfig ==
  [RoundConfig EXCEPT
     !.vocabularies = Append(@, [id |-> 10, word |-> "quantum reality", price |-> 5000]),
     !.combinations[2].vocab_ids = <<9, 10>>]

InitBundle ==
  /\ round_config \in {RoundConfig, RareBundleConfig}
  /\ InitSession
  /\ validate_story_content = <<>>
  /\ owned_vocab_words = <<>>
  /\ validation_result = NotValidated

NextBundle ==
  \/ \E c \in ComboIds : HandlePurchaseCombination(c)
  \/ \E c \in ComboIds, s \in StoryIndexes : HandlePurchaseStoryContent(c, s)
  \/ HandleDrawRandomWord

SpecBundle == InitBundle /\ [][NextBundle]_vars

BundleIds(c) == Range(round_config.combinations[ComboIndex(round_config, c)].vocab_ids)

BundlePrice(c) ==
  TotalVocabPrice(round_config, round_config.combinations[ComboIndex(round_config, c)].vocab_ids)

AllOwned(c) == BundleIds(c) \subseteq owned_vocabs

PartlyOwned(c) == BundleIds(c) \cap owned_vocabs # {} /\ ~AllOwned(c)

BundleAccepted(c) ==
  /\ result' = Result(TRUE, "Purchase successful")
  /\ current_balance' = current_balance - BundlePrice(c)
  /\ transaction_history'[Len(transaction_history')].cost = BundlePrice(c)
  /\ owned_vocabs' = owned_vocabs \cup BundleIds(c)

\* C36 as stated: handle_purchase_combination refuses a bundle only when
\* every one of its words is already owned, and a bundle of which some but
\* not all words are owned is accepted and charged the full bundle price.
C36_PartlyOwnedBundleAlwaysAccepted ==
  [][ \A c \in ComboIds :
        (ComboIndex(round_config, c) # 0 /\ HandlePurchaseCombination(c)) =>
          /\ ~result'.success => AllOwned(c)
          /\ PartlyOwned(c) => BundleAccepted(c) ]_vars

\* C36 amended: handle_purchase_combination refuses a bundle for ownership
\* only when every one of its words is already owned; a bundle of which some
\* but not all words are owned is accepted and charged the full bundle price
\* (the sum over all vocab_ids, owned ones included) when the balance covers
\* that full price, and refused with "Insufficient balance" otherwise.
C36_PartlyOwnedBundleFullPrice ==
  [][ \A c \in ComboIds :
        (ComboIndex(round_config, c) # 0 /\ HandlePurchaseCombination(c)) =>
          /\ result' = Result(FALSE, "You already own all words in this combination")
               <=> AllOwned(c)
          /\ ~result'.success => AllOwned(c) \/ BundlePrice(c) > current_balance
          /\ (PartlyOwned(c) /\ BundlePrice(c) <= current_balance) => BundleAccepted(c)
          /\ (PartlyOwned(c) /\ BundlePrice(c) > current_balance) =>
               /\ result' = Result(FALSE, "Insufficient balance")
               /\ UNCHANGED ledger ]_vars

C36_Witness ==
  /\ Len(transaction_history) = 2
  /\ transaction_history[1].type = "draw_word"
  /\ transaction_history[2].type = "purchase_combination"
  /\ transaction_history[1].vocab_id \in BundleIds(transaction_history[2].combo_id)
  /\ result = Result(TRUE, "Purchase successful")
  /\ current_balance = InitialEarnings - DrawPrice - BundlePrice(transaction_history[2].combo_id)

\* C37: validate_story never returns the "The following words or phrases
\* are not used" message: when every sentence passes the per-sentence checks
\* and the sentence count equals the owned-word count, no owned word is left
\* unused.
C37_UnusedBranchUnreachable ==
  validation_result.message # MsgUnused

\* every sentence passed and the counts were equal, with at least two words
C37_Witness ==
  /\ validation_result.message = MsgPassed
  /\ Len(owned_vocab_words) >= 2
  /\ Len(Sentences(validate_story_content)) = Len(owned_vocab_words)

\* one owned word is a case-insensitive substring of another owned word
SubstringPair(words) ==
  \E i, j \in 1..Len(words) : i # j /\ WordInSentence(words[i], words[j])

\* C38: when one owned word is a case-insensitive substring of another owned
\* word, validate_story returns valid=False for every story content.
C38_NestedWordsNeverValid ==
  (validation_result # NotValidated /\ SubstringPair(owned_vocab_words)) =>
    ~validation_result.valid

\* a story that uses the phrase in one sentence and the word in another is
\* rejected for the sentence with the phrase
C38_Witness ==
  /\ SubstringPair(owned_vocab_words)
  /\ Len(owned_vocab_words) = 2
  /\ Len(Sentences(validate_story_content)) = 2
  /\ validation_result.message = MsgMultiple
  /\ validation_result.words = owned_vocab_words

\* ------------------------------------------------------------------------
\* UserAssetService.transfer_story_content
\* ------------------------------------------------------------------------

\* a user_assets row of a party of a transfer; meta_ip_rate is the
\* content_ip_rate key of asset_metadata, -1 when the key is absent
TransferAsset(asset_id, player_id, asset_type, round_id, content, vocab_ids, meta_ip_rate, price_paid, transfered_from) ==
  [ asset_id |-> asset_id, player_id |-> player_id, asset_type |-> asset_type,
    round_id |-> round_id, content |-> content, used_vocabularies |-> vocab_ids,
    meta_ip_rate |-> meta_ip_rate, price_paid |-> price_paid,
    transfered_from |-> transfered_from ]

\* the storage call of the transfer that raises: 0 none, 1 the debit of the
\* receiver, 2 the credit of the sender, 3 create_asset
TransferFailAts == 0..3

\* transfer_price of a row: total_vocab_price * (content_ip_rate - 1)
TransferPrice(cfg, story) ==
  ContentPrice(TotalVocabPrice(cfg, story.used_vocabularies),
               IF story.meta_ip_rate = -1 THEN DefaultIpRate ELSE story.meta_ip_rate)

TransferReturns(from_player_id, to_player_id, story_id, value) ==
  transfer_returned' = [from_player_id |-> from_player_id, to_player_id |-> to_player_id,
                        story_id |-> story_id, value |-> value]

\* transfer_story_content(db, from_player_id, to_player_id, story_id).  The
\* two update_player_earnings calls and create_asset commit one after the
\* other; an exception of any of them is caught and False is returned with
\* what was committed before it left in place.
TransferStoryContent(from_player_id, to_player_id, story_id, fail_at) ==
  LET si == FirstIndex(story_assets, LAMBDA a : /\ a.asset_id = story_id
                                                /\ a.player_id = from_player_id
                                                /\ a.asset_type = "story_template")
      story == story_assets[si]
      transfer_price == TransferPrice(round_config, story)
      debited == [total_earnings EXCEPT ![to_player_id] = @ - transfer_price]
      credited == [debited EXCEPT ![from_player_id] = @ + transfer_price]
      i == CacheIndex(round_config_cache, clock, db_sessions, story.round_id)
  IN  /\ Len(story_assets) < MaxTransferRows
      /\ IF si = 0 THEN
            /\ TransferReturns(from_player_id, to_player_id, story_id, FALSE)
            /\ UNCHANGED << total_earnings, story_assets, round_config_cache, store_reads >>
          ELSE
            /\ IF i # 0 THEN
                  /\ round_config_cache' = CacheTouch(round_config_cache, i)
                  /\ UNCHANGED store_reads
                ELSE
                  /\ store_reads' = Append(store_reads,
                                           [round_number |-> story.round_id, at |-> clock])
                  /\ round_config_cache' =
                       CacheSet(round_config_cache, clock, db_sessions, story.round_id)
            /\ IF \/ story.round_id \notin RoundNumbers
                  \/ to_player_id \notin Players
                  \/ total_earnings[to_player_id] < transfer_price
                  \/ fail_at = 1 THEN
                  /\ TransferReturns(from_player_id, to_player_id, story_id, FALSE)
                  /\ UNCHANGED << total_earnings, story_assets >>
                ELSE IF fail_at = 2 THEN
                  /\ TransferReturns(from_player_id, to_player_id, story_id, FALSE)
                  /\ total_earnings' = debited
                  /\ UNCHANGED story_assets
                ELSE IF fail_at = 3 THEN
                  /\ TransferReturns(from_player_id, to_player_id, story_id, FALSE)
                  /\ total_earnings' = credited
                  /\ UNCHANGED story_assets
                ELSE
                  /\ TransferReturns(from_player_id, to_player_id, story_id, TRUE)
                  /\ total_earnings' = credited
                  /\ story_assets' =
                       Append(story_assets,
                              TransferAsset(Len(story_assets) + 1, to_player_id,
                                            "story_template", story.round_id,
                                            story.content, story.used_vocabularies,
                                            story.meta_ip_rate, transfer_price,
                                            from_player_id))
      /\ UNCHANGED << ledger, result, rating_state, validator_state, editor_state,
                      clock, db_sessions, generated_asset_id >>

\* The rows and balances after p1 bought the story sa5 with its word (50.00
\* and 50.00) and p2 the story sa1 with its words (10.00 and 20.00), and p2
\* saved a creation; round_id is st.secrets['round_id'] of the deployment,
\* which names a round of game_rounds or (2) none.
SeededStoryAssets(round_id) ==
  << TransferAsset(1, "p1", "story_template", round_id, "story sa5", <<9>>, 20, 10000, ""),
     TransferAsset(2, "p2", "story_template", round_id, "story sa1", <<1, 2>>, 15, 3000, ""),
     TransferAsset(3, "p2", "user_creation", round_id, "s1", <<1, 2>>, -1, 0, "") >>

InitTransfer ==
  /\ round_config \in RoundConfigs
  /\ CacheAfterInit
  /\ db_assets = <<>>
  /\ db_balance = InitialEarnings
  /\ current_balance = InitialEarnings
  /\ owned_vocabs = {}
  /\ player_assets = <<>>
  /\ transaction_history = <<>>
  /\ result = Result(TRUE, "")
  /\ appends = 0
  /\ appended_tids = {}
  /\ submit_flushes = <<>>
  /\ story_ratings = <<>>
  /\ rating_call = <<"", 0>>
  /\ stories_for_rating = <<>>
  /\ generated_asset_id = <<>>
  /\ session_story_content = <<>>
  /\ show_ip_rate_setting = FALSE
  /\ validate_story_content = <<>>
  /\ owned_vocab_words = <<>>
  /\ validation_result = NotValidated
  /\ total_earnings = [p \in Players |-> IF p = "p1" THEN 0 ELSE 7000]
  /\ \E r \in RoundNumbers \cup {2} : story_assets = SeededStoryAssets(r)
  /\ transfer_returned = NoTransfer

NextTransfer ==
  \E f \in Players, t \in Players \cup {"px"},
     s \in 1..MaxTransferRows, k \in TransferFailAts :
    TransferStoryContent(f, t, s, k)

SpecTransfer == InitTransfer /\ [][NextTransfer]_vars

\* C39: transfer_story_content conserves money: when it returns True the
\* receiver's balance has decreased and the sender's has increased by the
\* transfer price total_vocab_price * (content_ip_rate - 1), so that the sum
\* of the two persisted balances is unchanged, and a new asset exists; when
\* it returns False neither balance has changed and no asset was created.
C39_TransferConservesMoney ==
  [][ \A f \in Players, t \in Players \cup {"px"},
         s \in 1..MaxTransferRows, k \in TransferFailAts :
        TransferStoryContent(f, t, s, k) =>
          IF transfer_returned'.value THEN
            LET story == story_assets[s]
                price == ContentPrice(TotalVocabPrice(round_config, story.used_vocabularies),
                                      story.meta_ip_rate)
            IN  /\ f # t => /\ total_earnings'[t] = total_earnings[t] - price
                            /\ total_earnings'[f] = total_earnings[f] + price
                /\ total_earnings'[f] + total_earnings'[t] =
                     total_earnings[f] + total_earnings[t]
                /\ Len(story_assets') = Len(story_assets) + 1
          ELSE UNCHANGED << total_earnings, story_assets >> ]_vars

\* ------------------------------------------------------------------------
\* UserAssetService.purchase_story_content, the server-side purchase
\* ------------------------------------------------------------------------

\* UserAssetService.has_purchased_story
HasPurchasedStory(db, story_content) ==
  \E i \in 1..Len(db) : /\ db[i].content = story_content
                        /\ db[i].asset_type = "story_template"

\* purchase_story_content(db, player_id, round_number, combination_id,
\* story_index) for the participant and the round of the page: the owned
\* words are read from storage, the balance is debited and the row created
\* in storage; the metadata carries no content_ip_rate
PurchaseStoryContent(combination_id, story_index) ==
  LET ci == ComboIndex(round_config, combination_id)
      combo == round_config.combinations[ci]
      story == combo.stories[story_index + 1]
      owned == GetPlayerVocabularies(db_assets)
      actual_price == ServerActualPrice(round_config, combo.vocab_ids, owned,
                                        story.content_ip_rate)
      i == CacheIndex(round_config_cache, clock, db_sessions, RoundId)
  IN  /\ Len(db_assets) < MaxAssets
      /\ IF i # 0 THEN
            /\ round_config_cache' = CacheTouch(round_config_cache, i)
            /\ UNCHANGED store_reads
          ELSE
            /\ store_reads' = Append(store_reads, [round_number |-> RoundId, at |-> clock])
            /\ round_config_cache' = CacheSet(round_config_cache, clock, db_sessions, RoundId)
      /\ IF ci = 0 \/ story_index >= Len(combo.stories) THEN
            /\ result' = Result(FALSE, "purchase_story_content")
            /\ UNCHANGED << db_assets, db_balance >>
          ELSE IF HasPurchasedStory(db_assets, story.content) THEN
            /\ result' = Result(FALSE, "purchase_story_content")
            /\ UNCHANGED << db_assets, db_balance >>
          ELSE IF db_balance < actual_price THEN
            /\ result' = Result(FALSE, "purchase_story_content")
            /\ UNCHANGED << db_assets, db_balance >>
          ELSE
            /\ result' = Result(TRUE, "purchase_story_content")
            /\ db_balance' = db_balance - actual_price
            /\ db_assets' = Append(db_assets,
                                   UserAsset(Len(db_assets) + 1, "story_template",
                                             story.content, "active", combo.vocab_ids,
                                             0, actual_price, -1, 0))
      /\ UNCHANGED << round_config, session, appends, appended_tids, submit_flushes,
                      rating_state, validator_state, editor_state, clock, db_sessions,
                      generated_asset_id, transfer_state >>

SavedDraws(ids) ==
  [i \in 1..Len(ids) |->
     UserAsset(i, "vocabulary_draw",
               round_config.vocabularies[VocabIndex(round_config, ids[i])].word,
               "active", <<ids[i]>>, 0, DrawPrice, -1, 0)]

\* A session resumed by a participant who drew no word, va1 or va9 in an
\* earlier session, on every round data of PricingConfigs:
\* init_session_state reads the persisted balance, the owned ids and the
\* assets from the table.
InitServer ==
  /\ round_config \in PricingConfigs
  /\ \E ids \in {<<>>, <<1>>, <<9>>} :
       /\ db_assets = SavedDraws(ids)
       /\ db_balance = InitialEarnings - Len(ids) * DrawPrice
  /\ CacheAfterInit
  /\ current_balance = db_balance
  /\ owned_vocabs = GetPlayerVocabularies(db_assets)
  /\ player_assets = GetPlayerAssets(db_assets)
  /\ transaction_history = <<>>
  /\ result = Result(TRUE, "")
  /\ appends = 0
  /\ appended_tids = {}
  /\ submit_flushes = <<>>
  /\ story_ratings = <<>>
  /\ rating_call = <<"", 0>>
  /\ stories_for_rating = <<>>
  /\ generated_asset_id = <<>>
  /\ session_story_content = <<>>
  /\ show_ip_rate_setting = FALSE
  /\ validate_story_content = <<>>
  /\ owned_vocab_words = <<>>
  /\ validation_result = NotValidated
  /\ NoTransfers

\* The page's purchase handlers and the server-side purchase
NextServer ==
  \/ \E c \in ComboIds : HandlePurchaseCombination(c)
  \/ \E c \in ComboIds, s \in StoryIndexes : HandlePurchaseStoryContent(c, s)
  \/ HandleDrawRandomWord
  \/ \E c \in ComboIds, s \in StoryIndexes : PurchaseStoryContent(c, s)

SpecServer == InitServer /\ [][NextServer]_vars

BundleVocabIds == UNION {Range(round_config.combinations[k].vocab_ids) :
                           k \in 1..Len(round_config.combinations)}

LocalActualPrice(combo, story, owned) ==
  ActualPrice(ContentPrice(TotalVocabPrice(round_config, combo.vocab_ids),
                           story.content_ip_rate),
              MissingVocabPrice(round_config, combo.vocab_ids, owned))

HoldsStoryLocally(story_content) ==
  \E i \in 1..Len(player_assets) : /\ player_assets[i].content = story_content
                                   /\ player_assets[i].asset_type = "story_template"

\* C40: the server-side purchase_story_content and the local
\* handle_purchase_story_content compute the same actual price for every
\* bundle, story and owned vocabulary set of every catalog, each charges
\* that price when it accepts, and each refuses a story whose content the
\* participant already holds as a story_template.
C40_ServerAndLocalPriceAgree ==
  [][ \A c \in ComboIds, s \in StoryIndexes :
        LET ci == ComboIndex(round_config, c)
            combo == round_config.combinations[ci]
            story == combo.stories[s + 1]
        IN  (ci # 0 /\ s < Len(combo.stories)) =>
              /\ \A owned \in SUBSET (CatalogIds \cup BundleVocabIds) :
                   ServerActualPrice(round_config, combo.vocab_ids, owned,
                                     story.content_ip_rate)
                     = LocalActualPrice(combo, story, owned)
              /\ (HandlePurchaseStoryContent(c, s) /\ result'.success) =>
                   current_balance' = current_balance
                     - ServerActualPrice(round_config, combo.vocab_ids, owned_vocabs,
                                         story.content_ip_rate)
              /\ (PurchaseStoryContent(c, s) /\ result'.success) =>
                   db_balance' = db_balance
                     - LocalActualPrice(combo, story, GetPlayerVocabularies(db_assets))
              /\ (HandlePurchaseStoryContent(c, s) /\ HoldsStoryLocally(story.content)) =>
                   /\ result' = Result(FALSE, "You have already purchased this story")
                   /\ UNCHANGED ledger
              /\ (PurchaseStoryContent(c, s) /\ HasPurchasedStory(db_assets, story.content)) =>
                   /\ ~result'.success
                   /\ UNCHANGED ledger ]_vars

\* the server sold a story of a bundle of which one word had been drawn, and
\* has refused a later call
C40_Witness ==
  /\ result = Result(FALSE, "purchase_story_content")
  /\ \E i \in 1..Len(db_assets) :
       /\ db_assets[i].asset_type = "story_template"
       /\ db_assets[i].tid = 0
       /\ \E j \in 1..(i - 1) :
            /\ db_assets[j].asset_type = "vocabulary_draw"
            /\ Range(db_assets[j].used_vocabularies) \subseteq Range(db_assets[i].used_vocabularies)
            /\ Range(db_assets[j].used_vocabularies) # Range(db_assets[i].used_vocabularies)

====
